---------------------------- MODULE Spec2Model ----------------------------
(***************************************************************************)
(* protoc-gen-rain: the generator run (main -> CommandLineParameters ->    *)
(* WrapTypes -> SetPackageNames -> BuildTypeNameMap -> GenerateAllFiles -> *)
(* write the response) and the routing layer the generated code runs on.   *)
(*                                                                         *)
(* Strings are sequences of one-character strings, so that concatenation,  *)
(* splitting, case folding and prefix tests are computed, not assumed.     *)
(***************************************************************************)
EXTENDS Integers, Sequences, FiniteSets, TLC

(* ------------------------------ strings ------------------------------ *)

Range(s) == { s[i] : i \in DOMAIN s }

\* All sequences over S of length lo..hi.
SeqsBetween(S, lo, hi) == UNION { [1..n -> S] : n \in lo..hi }

\* strings.Index(s, c): 1-based position of the first c, 0 when there is none.
IndexOf(s, c) ==
    IF c \in Range(s) THEN CHOOSE i \in DOMAIN s : s[i] = c /\ \A j \in 1..(i-1) : s[j] # c
    ELSE 0

\* strings.LastIndex(s, c): 1-based position of the last c, 0 when there is none.
LastIndexOf(s, c) ==
    IF c \in Range(s) THEN CHOOSE i \in DOMAIN s : s[i] = c /\ \A j \in (i+1)..Len(s) : s[j] # c
    ELSE 0

Before(s, i) == SubSeq(s, 1, i - 1)
After(s, i) == SubSeq(s, i + 1, Len(s))


\* strings.Split(s, sep) for a one-character separator.
RECURSIVE Split(_, _)
Split(s, c) ==
    IF IndexOf(s, c) = 0 THEN << s >>
    ELSE << Before(s, IndexOf(s, c)) >> \o Split(After(s, IndexOf(s, c)), c)

\* strings.Join(parts, sep).
RECURSIVE Join(_, _)
Join(parts, sep) ==
    IF Len(parts) = 0 THEN << >>
    ELSE IF Len(parts) = 1 THEN parts[1]
    ELSE parts[1] \o sep \o Join(Tail(parts), sep)

LowerLetters == { "a", "b", "c", "d", "e", "f", "g", "h", "i", "j", "k", "l", "m",
                  "n", "o", "p", "q", "r", "s", "t", "u", "v", "w", "x", "y", "z" }
UpperOf == [ a |-> "A", b |-> "B", c |-> "C", d |-> "D", e |-> "E", f |-> "F", g |-> "G",
             h |-> "H", i |-> "I", j |-> "J", k |-> "K", l |-> "L", m |-> "M", n |-> "N",
             o |-> "O", p |-> "P", q |-> "Q", r |-> "R", s |-> "S", t |-> "T", u |-> "U",
             v |-> "V", w |-> "W", x |-> "X", y |-> "Y", z |-> "Z" ]
UpperLetters == { UpperOf[c] : c \in LowerLetters }
Digits == { "0", "1", "2", "3", "4", "5", "6", "7", "8", "9" }

ToUpperChr(c) == IF c \in LowerLetters THEN UpperOf[c] ELSE c
ToLowerChr(c) == IF c \in UpperLetters THEN CHOOSE l \in LowerLetters : UpperOf[l] = c ELSE c

\* strings.ToLower.
ToLower(s) == [ i \in DOMAIN s |-> ToLowerChr(s[i]) ]

\* strings.EqualFold.
EqualFold(s, t) == ToLower(s) = ToLower(t)

\* path.Dir / filepath.Dir of a clean relative path (no "..", no doubled slash).
PathDir(s) ==
    IF LastIndexOf(s, "/") = 0 THEN << "." >>
    ELSE IF LastIndexOf(s, "/") = 1 THEN << "/" >>
    ELSE Before(s, LastIndexOf(s, "/"))

\* path.Ext: the suffix beginning at the final dot of the last path element.
PathExt(s) ==
    LET base == After(s, LastIndexOf(s, "/"))
    IN  IF LastIndexOf(base, ".") = 0 THEN << >>
        ELSE SubSeq(base, LastIndexOf(base, "."), Len(base))

DotProto == << ".", "p", "r", "o", "t", "o" >>
DotProtoDevel == << ".", "p", "r", "o", "t", "o", "d", "e", "v", "e", "l" >>

(* --------------------- helpers of package generator ------------------- *)

\* baseName: the last path element without its extension.
baseName(name) ==
    LET last == After(name, LastIndexOf(name, "/"))
    IN  IF LastIndexOf(last, ".") = 0 THEN last ELSE Before(last, LastIndexOf(last, "."))

\* cleanPackageName: every character that is not a letter, a digit or '_' becomes
\* '_'; a leading digit gets a '_' in front.  (No Go keyword is in the alphabet of
\* names used here.)
cleanPackageName(name) ==
    LET good == LowerLetters \cup UpperLetters \cup Digits \cup { "_" }
        m == [ i \in DOMAIN name |-> IF name[i] \in good THEN name[i] ELSE "_" ]
    IN  IF Len(m) > 0 /\ m[1] \in Digits THEN << "_" >> \o m ELSE m

\* CamelCase: '_' before a lower-case letter is dropped and the letter upper-cased, a
\* leading '_' becomes 'X', a lower-case letter that starts a word (the first
\* character, or one after a digit or a dropped '_') is upper-cased, and the
\* lower-case letters that follow any other character are kept.
RECURSIVE CamelFrom(_, _, _)
CamelFrom(s, i, startOfWord) ==
    IF i > Len(s) THEN << >>
    ELSE IF s[i] = "_" /\ i + 1 <= Len(s) /\ s[i + 1] \in LowerLetters
         THEN CamelFrom(s, i + 1, TRUE)
    ELSE IF s[i] \in Digits THEN << s[i] >> \o CamelFrom(s, i + 1, TRUE)
    ELSE IF s[i] \in LowerLetters
         THEN << IF startOfWord THEN ToUpperChr(s[i]) ELSE s[i] >> \o CamelFrom(s, i + 1, FALSE)
    ELSE << s[i] >> \o CamelFrom(s, i + 1, FALSE)

CamelCase(s) ==
    IF Len(s) = 0 THEN << >>
    ELSE IF s[1] = "_" THEN << "X" >> \o CamelFrom(s, 2, TRUE)
    ELSE CamelFrom(s, 1, TRUE)

\* CamelCaseSlice: CamelCase of the elements joined by '_'.
CamelCaseSlice(elem) == CamelCase(Join(elem, << "_" >>))

\* dottedSlice: the elements joined by '.'.
dottedSlice(elem) == Join(elem, << "." >>)

(* ------------------------- the request's parts ------------------------ *)

\* Bounds of the inputs.
MaxDepth == 2       \* nesting depth of a message declaration
MaxFiles == 2       \* schema files of a request of the package family
MaxMethods == 2     \* methods of a service

NoStr == << >>      \* the empty string; also an unset optional string

sA == << "A" >>
sB == << "B" >>
pkgP == << "p" >>
pkgPA == << "p", ".", "A" >>
pkgQ == << "Q" >>

fileX == << "a", "/", "x" >> \o DotProto
fileY == << "a", "/", "y" >> \o DotProto
fileZ == << "b", "/", "z" >> \o DotProto
fileMissing == << "n", "o" >> \o DotProto
FileNameAt(i) == IF i = 1 THEN fileX ELSE IF i = 2 THEN fileY ELSE fileZ

\* descriptor.FieldDescriptorProto: name, type, type name of a message/enum/group
\* field, the JSON name (NoStr: unset), whether the label is repeated, and the text
\* after "@tag" in the field's leading comment (NoStr: no such line).
Field(name, type, typeName) ==
    [ name |-> name, type |-> type, typeName |-> typeName, jsonName |-> NoStr,
      repeated |-> FALSE, tag |-> NoStr ]

\* descriptor.DescriptorProto.
Message(name, nested, enums, fields, mapEntry) ==
    [ name |-> name, nestedType |-> nested, enumType |-> enums, field |-> fields,
      mapEntry |-> mapEntry ]

\* A message declaration nested k deep (A { B { A ... } }), with an enum B declared in
\* the message at level enumAt (0: no enum).
LevelName(level) == IF level % 2 = 1 THEN sA ELSE sB
RECURSIVE ChainProto(_, _, _)
ChainProto(level, k, enumAt) ==
    Message(LevelName(level),
            IF level < k THEN << ChainProto(level + 1, k, enumAt) >> ELSE << >>,
            IF enumAt = level THEN << sB >> ELSE << >>,
            << >>, FALSE)

Chains == { ChainProto(1, k, e) : k \in 1..MaxDepth, e \in 0..MaxDepth }

\* descriptor.MethodDescriptorProto with its google.api.http option: hasHttp says
\* whether the extension is set, pattern is the HttpRule's pattern case.
Method(name, inT, outT, hasHttp, pattern, responseBody, tag) ==
    [ name |-> name, inputType |-> inT, outputType |-> outT, hasHttp |-> hasHttp,
      pattern |-> pattern, url |-> << "/", "v" >>, responseBody |-> responseBody,
      tag |-> tag ]

Service(name, methods) == [ name |-> name, method |-> methods ]

\* descriptor.FileDescriptorProto.  package = NoStr is an unset package.  dependency
\* holds file names, publicDependency and weakDependency hold indexes into it
\* (from 0), extension the names of the top-level extensions.
File(name, package, goPackage, msgs, enums, services) ==
    [ name |-> name, package |-> package, goPackage |-> goPackage, messageType |-> msgs,
      enumType |-> enums, service |-> services, dependency |-> << >>,
      publicDependency |-> << >>, weakDependency |-> << >>, extension |-> << >>,
      syntax |-> "proto3" ]
WithDependencies(f, dependency, public, weak) ==
    [ f EXCEPT !.dependency = dependency, !.publicDependency = public, !.weakDependency = weak ]

\* One key=value (or bare key) token of the parameter string.
kPaths == << "p", "a", "t", "h", "s" >>
kImportPath == << "i", "m", "p", "o", "r", "t", "_", "p", "a", "t", "h" >>
kImportPrefix == << "i", "m", "p", "o", "r", "t", "_", "p", "r", "e", "f", "i", "x" >>
kRepo == << "r", "e", "p", "o" >>
kPath == << "p", "a", "t", "h" >>
vImport == << "i", "m", "p", "o", "r", "t" >>
vSourceRelative == << "s", "o", "u", "r", "c", "e", "_", "r", "e", "l", "a", "t", "i", "v", "e" >>
Token(k, v) == k \o << "=" >> \o v

\* plugin.CodeGeneratorRequest, with the two things of the environment a run reads:
\* the manifest file at <path>/handler.json and GEN_ERROR_CODE.
Request(files, toGenerate, parameter, manifest0, gec) ==
    [ parsable |-> TRUE, protoFile |-> files, fileToGenerate |-> toGenerate,
      parameter |-> parameter, manifest |-> manifest0, genErrorCode |-> gec ]

(* ------------------------------ the state ----------------------------- *)

VARIABLES
    req,                \* the request on standard input and the environment of the run
    pc,                 \* where main is
    exitCode,           \* the exit status once the process has ended, -1 while it runs
    failedAt,           \* the step whose Fail ended the run, "" when none did
    Param,              \* g.Param
    PackageImportPath,  \* g.PackageImportPath
    ImportPrefix,       \* g.ImportPrefix
    ImportMap,          \* g.ImportMap
    allFiles,           \* g.allFiles: the wrapped files, in request order
    allFilesByName,     \* g.allFilesByName: file name -> index into allFiles
    genFiles,           \* g.genFiles: indexes into allFiles
    outputImportPath,   \* g.outputImportPath
    typeNameToObject,   \* g.typeNameToObject
    fileIdx,            \* GenerateAllFiles: the file of allFiles being generated
    svcIdx,             \* generateApiFile: the next service of the file
    buffer,             \* the lines emitted into g.Buffer for the current API file
    packageNames,       \* g.packageNames: import path -> package name, for the pass
    usedPackageNames,   \* g.usedPackageNames
    usedPackages,       \* g.usedPackages
    addedImports,       \* g.addedImports
    lastCall,           \* the last GoPackageName / AddImport call: path and result
    Response,           \* g.Response.File
    manifest,           \* the content of <path>/handler.json
    stdout,             \* what has been written to standard output
    mIns,               \* router.mIns: middleware name -> handler
    engine,             \* the routes of the gin.Engine, in registration order
    registered,         \* how many routes of the generated Register function have run
    served              \* the last request served: route, handlers invoked, envelope,
                        \* the names mIns held

vars == << req, pc, exitCode, failedAt, Param, PackageImportPath, ImportPrefix, ImportMap,
           allFiles, allFilesByName, genFiles, outputImportPath, typeNameToObject,
           fileIdx, svcIdx, buffer, packageNames, usedPackageNames, usedPackages,
           addedImports, lastCall, Response, manifest, stdout,
           mIns, engine, registered, served >>

paramVars == << Param, PackageImportPath, ImportPrefix, ImportMap >>
graphVars == << allFiles, allFilesByName, genFiles, outputImportPath, typeNameToObject >>
passVars == << fileIdx, svcIdx, buffer >>
tableVars == << packageNames, usedPackageNames, usedPackages, addedImports >>
importVars == << tableVars, lastCall >>
outVars == << Response, manifest, stdout >>
routerVars == << mIns, engine, registered, served >>
genVars == << req, pc, exitCode, failedAt, paramVars, graphVars, passVars, importVars, outVars >>

\* A Go map as a function; a missing key reads as the zero value.
EmptyMap == [ k \in {} |-> NoStr ]
MapGet(m, k) == IF k \in DOMAIN m THEN m[k] ELSE NoStr
MapPut(m, k, v) == [ x \in DOMAIN m \cup { k } |-> IF x = k THEN v ELSE m[x] ]

(* ---------------------- Generator.Error / Fail ------------------------ *)

\* A mutant: the diagnostic is logged and the process ends with status 0.
FailExitsZero(at) ==
    /\ failedAt' = at
    /\ exitCode' = 0
    /\ pc' = "exited"

\* log.Print, then os.Exit(1): nothing after the call runs.
Fail(at) ==
    /\ failedAt' = at
    /\ exitCode' = 1
    /\ pc' = "exited"

(* ----------------------- CommandLineParameters ------------------------ *)

\* The loop over strings.Split(parameter, ","): a token without '=' maps to "".
RECURSIVE ParamOfTokens(_, _)
ParamOfTokens(m, toks) ==
    IF Len(toks) = 0 THEN m
    ELSE LET p == Head(toks)
             i == IndexOf(p, "=")
         IN  ParamOfTokens(IF i = 0 THEN MapPut(m, p, NoStr)
                           ELSE MapPut(m, Before(p, i), After(p, i)),
                           Tail(toks))

ParseParam(parameter) == ParamOfTokens(EmptyMap, Split(parameter, ","))

\* The keys beginning with 'M' other than the named ones: file name -> import path.
ImportMapOf(m) ==
    LET ks == { k \in DOMAIN m : /\ k \notin { kImportPrefix, kImportPath, kPaths }
                                 /\ Len(k) > 0 /\ k[1] = "M" }
    IN  [ n \in { Tail(k) : k \in ks } |-> m[<< "M" >> \o n] ]

CommandLineParameters ==
    /\ pc = "CommandLineParameters"
    /\ LET m == ParseParam(req.parameter)
       IN  /\ Param' = m
           /\ ImportMap' = ImportMapOf(m)
           /\ PackageImportPath' = MapGet(m, kImportPath)
           /\ ImportPrefix' = IF MapGet(m, kImportPrefix) = NoStr
                              THEN MapGet(m, kRepo) \o << "/" >>
                              ELSE MapGet(m, kImportPrefix)
           /\ IF kPaths \in DOMAIN m /\ m[kPaths] \notin { vImport, vSourceRelative }
              THEN Fail("Unknown path type")
              ELSE /\ pc' = "WrapTypes"
                   /\ UNCHANGED << exitCode, failedAt >>
    /\ UNCHANGED << routerVars, importVars, req, graphVars, passVars, outVars >>

(* ------------------------------ WrapTypes ----------------------------- *)

\* FileDescriptor.goPackageOption: (import path, package name, ok).
goPackageOption(f) ==
    LET opt == f.goPackage
        sc == IndexOf(opt, ";")
        slash == LastIndexOf(opt, "/")
    IN  IF opt = NoStr THEN [ impPath |-> NoStr, pkg |-> NoStr, ok |-> FALSE ]
        ELSE IF sc > 0
             THEN [ impPath |-> Before(opt, sc), pkg |-> cleanPackageName(After(opt, sc)),
                    ok |-> TRUE ]
        ELSE IF slash > 0
             THEN [ impPath |-> opt, pkg |-> cleanPackageName(After(opt, slash)), ok |-> TRUE ]
        ELSE [ impPath |-> NoStr, pkg |-> cleanPackageName(opt), ok |-> TRUE ]

\* newDescriptor: parent is an index into the file's descriptor list, 0 for nil.
newDescriptor(desc, parent, index) ==
    [ name |-> desc.name, parent |-> parent, index |-> index,
      NestedType |-> Len(desc.nestedType), EnumType |-> desc.enumType,
      Field |-> desc.field, mapEntry |-> desc.mapEntry,
      nested |-> << >>, enums |-> << >> ]

\* wrapThisDescriptor: the message, then its nested messages, depth first.
RECURSIVE wrapThisDescriptor(_, _, _, _)
RECURSIVE wrapNestedFrom(_, _, _, _)
wrapThisDescriptor(sl, desc, parent, index) ==
    wrapNestedFrom(Append(sl, newDescriptor(desc, parent, index)), desc.nestedType,
                   Len(sl) + 1, 1)
wrapNestedFrom(sl, nestedTypes, me, i) ==
    IF i > Len(nestedTypes) THEN sl
    ELSE wrapNestedFrom(wrapThisDescriptor(sl, nestedTypes[i], me, i - 1), nestedTypes, me, i + 1)

RECURSIVE wrapTopFrom(_, _, _)
wrapTopFrom(sl, msgs, i) ==
    IF i > Len(msgs) THEN sl
    ELSE wrapTopFrom(wrapThisDescriptor(sl, msgs[i], 0, i - 1), msgs, i + 1)

wrapDescriptors(f) == wrapTopFrom(<< >>, f.messageType, 1)

\* newEnumDescriptor.
newEnumDescriptor(name, parent, index) == [ name |-> name, parent |-> parent, index |-> index ]

\* A mutant: the enums of a nested message get the outermost message as parent.
RECURSIVE outermostOf(_, _)
outermostOf(descs, d) == IF descs[d].parent = 0 THEN d ELSE outermostOf(descs, descs[d].parent)
RECURSIVE enumsOfDescsOutermost(_, _)
enumsOfDescsOutermost(descs, d) ==
    IF d > Len(descs) THEN << >>
    ELSE [ i \in 1..Len(descs[d].EnumType) |->
             newEnumDescriptor(descs[d].EnumType[i], outermostOf(descs, d), i - 1) ]
         \o enumsOfDescsOutermost(descs, d + 1)

\* wrapEnumDescriptors: the file's top-level enums, then the enums of every
\* message of descs, each with the message that declares it as parent.
RECURSIVE enumsOfDescsFrom(_, _)
enumsOfDescsFrom(descs, d) ==
    IF d > Len(descs) THEN << >>
    ELSE [ i \in 1..Len(descs[d].EnumType) |-> newEnumDescriptor(descs[d].EnumType[i], d, i - 1) ]
         \o enumsOfDescsFrom(descs, d + 1)

wrapEnumDescriptors(f, descs) ==
    [ i \in 1..Len(f.enumType) |-> newEnumDescriptor(f.enumType[i], 0, i - 1) ]
    \o enumsOfDescsFrom(descs, 1)

\* A mutant: each child found is recorded one place too early.
RECURSIVE ChildrenOfOffByOne(_, _, _)
ChildrenOfOffByOne(seq, d, i) ==
    IF i > Len(seq) THEN << >>
    ELSE (IF seq[i].parent = d THEN << i - 1 >> ELSE << >>) \o ChildrenOfOffByOne(seq, d, i + 1)

\* The indexes, in order, of the elements of seq whose parent is d.
RECURSIVE ChildrenOf(_, _, _)
ChildrenOf(seq, d, i) ==
    IF i > Len(seq) THEN << >>
    ELSE (IF seq[i].parent = d THEN << i >> ELSE << >>) \o ChildrenOf(seq, d, i + 1)

\* buildNestedDescriptors: link each message that declares nested messages to the
\* descriptors whose parent it is.
buildNestedDescriptors(descs) ==
    [ d \in 1..Len(descs) |->
        IF descs[d].NestedType # 0
        THEN [ descs[d] EXCEPT !.nested = ChildrenOf(descs, d, 1) ]
        ELSE descs[d] ]

\* buildNestedEnums: link each message that declares enums to the enum
\* descriptors whose parent it is.
buildNestedEnums(descs, enums) ==
    [ d \in 1..Len(descs) |->
        IF Len(descs[d].EnumType) # 0
        THEN [ descs[d] EXCEPT !.enums = ChildrenOf(enums, d, 1) ]
        ELSE descs[d] ]

\* The two consistency checks of buildNestedDescriptors and buildNestedEnums.
nestingFailure(descs) ==
    \E d \in 1..Len(descs) :
        \/ descs[d].NestedType # 0 /\ Len(descs[d].nested) # descs[d].NestedType
        \/ Len(descs[d].EnumType) # 0 /\ Len(descs[d].enums) # Len(descs[d].EnumType)

\* A mutant: the import_path parameter is applied to files not to generate too.
importPathOfAnyFile(f, toGenerate, importMap, packageImportPath) ==
    IF f.name \in DOMAIN importMap THEN importMap[f.name]
    ELSE IF packageImportPath # NoStr THEN packageImportPath
    ELSE IF goPackageOption(f).impPath # NoStr THEN goPackageOption(f).impPath
    ELSE PathDir(f.name)

\* The import path WrapTypes gives a file: first match of the M override, the
\* import_path parameter (files to generate only), the go_package option, the
\* directory of the file name.
importPathOf(f, toGenerate, importMap, packageImportPath) ==
    IF f.name \in DOMAIN importMap THEN importMap[f.name]
    ELSE IF f.name \in Range(toGenerate) /\ packageImportPath # NoStr THEN packageImportPath
    ELSE IF goPackageOption(f).impPath # NoStr THEN goPackageOption(f).impPath
    ELSE PathDir(f.name)

\* The FileDescriptor WrapTypes builds for one file of the request.
wrapFile(f, toGenerate, importMap, packageImportPath) ==
    LET desc0 == buildNestedDescriptors(wrapDescriptors(f))
        enum == wrapEnumDescriptors(f, desc0)
    IN  [ name |-> f.name, package |-> f.package,
          importPath |-> importPathOf(f, toGenerate, importMap, packageImportPath),
          packageName |-> NoStr,
          desc |-> buildNestedEnums(desc0, enum),
          enum |-> enum,
          ext |-> f.extension,
          imp |-> << >> ]

\* allFilesByName: the last file of each name.
filesByName(files) ==
    [ n \in { files[i].name : i \in DOMAIN files } |->
        CHOOSE i \in DOMAIN files : files[i].name = n /\ \A j \in (i+1)..Len(files) : files[j].name # n ]

\* A mutant: only the declarations at the top level of a dependency are imported.
RECURSIVE importedTopLevelFrom(_, _, _, _)
importedTopLevelFrom(files, byName, f, k) ==
    IF k > Len(f.publicDependency) THEN << >>
    ELSE LET df == byName[f.dependency[f.publicDependency[k] + 1]]
             ds == SelectSeq([ d \in DOMAIN files[df].desc |-> d ],
                             LAMBDA d : files[df].desc[d].parent = 0)
             es == SelectSeq([ e \in DOMAIN files[df].enum |-> e ],
                             LAMBDA e : files[df].enum[e].parent = 0)
         IN  [ i \in DOMAIN ds |-> [ file |-> df, kind |-> "msg", idx |-> ds[i] ] ]
             \o [ i \in DOMAIN es |-> [ file |-> df, kind |-> "enum", idx |-> es[i] ] ]
             \o [ x \in DOMAIN files[df].ext |-> [ file |-> df, kind |-> "ext", idx |-> x ] ]
             \o importedTopLevelFrom(files, byName, f, k + 1)

\* wrapImported, from the k-th public dependency of f on: for each one the
\* descriptors of the file of that name that are not map entries, its enum
\* descriptors and its extensions, in that order.
RECURSIVE importedFrom(_, _, _, _)
importedFrom(files, byName, f, k) ==
    IF k > Len(f.publicDependency) THEN << >>
    ELSE LET df == byName[f.dependency[f.publicDependency[k] + 1]]
             ds == SelectSeq([ d \in DOMAIN files[df].desc |-> d ],
                             LAMBDA d : ~files[df].desc[d].mapEntry)
         IN  [ i \in DOMAIN ds |-> [ file |-> df, kind |-> "msg", idx |-> ds[i] ] ]
             \o [ e \in DOMAIN files[df].enum |-> [ file |-> df, kind |-> "enum", idx |-> e ] ]
             \o [ x \in DOMAIN files[df].ext |-> [ file |-> df, kind |-> "ext", idx |-> x ] ]
             \o importedFrom(files, byName, f, k + 1)

\* The second loop of WrapTypes: fd.imp = wrapImported(fd, g) for every file.
wrapImported(files, byName) ==
    [ i \in DOMAIN files |->
        [ files[i] EXCEPT !.imp = importedFrom(files, byName, req.protoFile[i], 1) ] ]

WrapTypes ==
    /\ pc = "WrapTypes"
    /\ LET fds0 == [ i \in DOMAIN req.protoFile |->
                       wrapFile(req.protoFile[i], req.fileToGenerate, ImportMap, PackageImportPath) ]
           byName == filesByName(fds0)
           fds == wrapImported(fds0, byName)
       IN  /\ allFiles' = fds
           /\ allFilesByName' = byName
           /\ IF \E i \in DOMAIN fds : nestingFailure(fds[i].desc)
              THEN Fail("internal error: nesting failure") /\ UNCHANGED genFiles
              ELSE IF \E i \in DOMAIN req.fileToGenerate : req.fileToGenerate[i] \notin DOMAIN byName
              THEN Fail("could not find file named") /\ UNCHANGED genFiles
              ELSE /\ genFiles' = [ i \in DOMAIN req.fileToGenerate |-> byName[req.fileToGenerate[i]] ]
                   /\ pc' = "SetPackageNames"
                   /\ UNCHANGED << exitCode, failedAt >>
    /\ UNCHANGED << routerVars, importVars, req, paramVars, outputImportPath, typeNameToObject, passVars, outVars >>

(* --------------------------- SetPackageNames -------------------------- *)

\* defaultGoPackage: the last element of the import_path parameter, cleaned.
defaultGoPackage(packageImportPath) ==
    cleanPackageName(After(packageImportPath, LastIndexOf(packageImportPath, "/")))

\* defaultPackageNames: import path -> the package name of the go_package option of
\* the last file to generate that has that import path and the option.
defaultPackageNames(files, gen) ==
    LET withOpt == { i \in DOMAIN gen : goPackageOption(req.protoFile[gen[i]]).ok }
    IN  [ ip \in { files[gen[i]].importPath : i \in withOpt } |->
            LET last == CHOOSE i \in withOpt :
                            /\ files[gen[i]].importPath = ip
                            /\ \A j \in withOpt : j > i => files[gen[j]].importPath # ip
            IN  goPackageOption(req.protoFile[gen[last]]).pkg ]

\* A mutant: the go_package option of another file of the import path is not
\* consulted.
packageNameOfOwnOptionOnly(files, gen, i, packageImportPath) ==
    LET f == req.protoFile[i]
    IN  IF goPackageOption(f).ok THEN goPackageOption(f).pkg
        ELSE IF defaultGoPackage(packageImportPath) # NoStr THEN defaultGoPackage(packageImportPath)
        ELSE IF f.package # NoStr THEN cleanPackageName(f.package)
        ELSE cleanPackageName(baseName(f.name))

\* The package name SetPackageNames gives file i of allFiles.
packageNameOf(files, gen, i, packageImportPath) ==
    LET f == req.protoFile[i]
        dflt == defaultPackageNames(files, gen)
    IN  IF goPackageOption(f).ok THEN goPackageOption(f).pkg
        ELSE IF files[i].importPath \in DOMAIN dflt THEN dflt[files[i].importPath]
        ELSE IF defaultGoPackage(packageImportPath) # NoStr THEN defaultGoPackage(packageImportPath)
        ELSE IF f.package # NoStr THEN cleanPackageName(f.package)
        ELSE cleanPackageName(baseName(f.name))

\* A mutant: only the import paths are compared.
inconsistentImportPaths(files, gen) ==
    \E i \in 2..Len(gen) : files[gen[1]].importPath # files[gen[i]].importPath

\* The check that ends SetPackageNames: every file to generate agrees with the
\* first on import path and on package name.
inconsistentPackages(files, gen) ==
    \E i \in 2..Len(gen) :
        \/ files[gen[1]].importPath # files[gen[i]].importPath
        \/ files[gen[1]].packageName # files[gen[i]].packageName

\* The message of the first inconsistency the check meets: for each file in turn the
\* import path is compared before the package name.
inconsistencyMessage(files, gen) ==
    LET bad == { i \in 2..Len(gen) : \/ files[gen[1]].importPath # files[gen[i]].importPath
                                     \/ files[gen[1]].packageName # files[gen[i]].packageName }
        first == CHOOSE i \in bad : \A j \in bad : i <= j
    IN  IF files[gen[1]].importPath # files[gen[first]].importPath
        THEN "inconsistent package import paths"
        ELSE "inconsistent package names"

\* The files once the loop of SetPackageNames has named those to generate.
namedFiles(files, gen, packageImportPath) ==
    [ i \in DOMAIN files |->
        IF i \in Range(gen)
        THEN [ files[i] EXCEPT !.packageName = packageNameOf(files, gen, i, packageImportPath) ]
        ELSE files[i] ]

SetPackageNames ==
    /\ pc = "SetPackageNames"
    /\ LET named == namedFiles(allFiles, genFiles, PackageImportPath)
       IN  /\ allFiles' = named
           /\ outputImportPath' = allFiles[genFiles[1]].name
           /\ IF inconsistentPackages(named, genFiles)
              THEN Fail(inconsistencyMessage(named, genFiles))
              ELSE pc' = "BuildTypeNameMap" /\ UNCHANGED << exitCode, failedAt >>
    /\ UNCHANGED << routerVars, importVars, req, paramVars, allFilesByName, genFiles, typeNameToObject, passVars, outVars >>

(* -------------------- BuildTypeNameMap, ObjectNamed ------------------- *)

\* Descriptor.TypeName: the names from the outermost message down to this one.
RECURSIVE descTypeName(_, _)
descTypeName(descs, d) ==
    IF descs[d].parent = 0 THEN << descs[d].name >>
    ELSE Append(descTypeName(descs, descs[d].parent), descs[d].name)

\* EnumDescriptor.TypeName: the parent's type name, then the enum's name.
enumTypeName(fd, e) ==
    IF fd.enum[e].parent = 0 THEN << fd.enum[e].name >>
    ELSE Append(descTypeName(fd.desc, fd.enum[e].parent), fd.enum[e].name)

\* A descriptor object: the file of allFiles, message or enum, its index there.
MsgObj(f, d) == [ file |-> f, kind |-> "msg", idx |-> d ]
EnumObj(f, e) == [ file |-> f, kind |-> "enum", idx |-> e ]

objTypeName(files, o) ==
    IF o.kind = "msg" THEN descTypeName(files[o.file].desc, o.idx)
    ELSE enumTypeName(files[o.file], o.idx)

\* The key BuildTypeNameMap stores an object under: "." + package + "." + dotted
\* type name, "." + dotted type name when the package is empty.
dottedPkg(fd) == IF fd.package = NoStr THEN << "." >> ELSE << "." >> \o fd.package \o << "." >>
objKey(files, o) == dottedPkg(files[o.file]) \o dottedSlice(objTypeName(files, o))

\* The assignments of BuildTypeNameMap in program order: file by file, the
\* file's enums, then its messages.
RECURSIVE insertionsFrom(_, _)
insertionsFrom(files, f) ==
    IF f > Len(files) THEN << >>
    ELSE [ e \in 1..Len(files[f].enum) |-> EnumObj(f, e) ]
         \o [ d \in 1..Len(files[f].desc) |-> MsgObj(f, d) ]
         \o insertionsFrom(files, f + 1)

\* The map BuildTypeNameMap ends with: an assignment replaces an earlier one of the
\* same key.
buildTypeNameMap(files) ==
    LET ins == insertionsFrom(files, 1)
    IN  [ k \in { objKey(files, ins[i]) : i \in DOMAIN ins } |->
            ins[CHOOSE i \in DOMAIN ins :
                    /\ objKey(files, ins[i]) = k
                    /\ \A j \in (i+1)..Len(ins) : objKey(files, ins[j]) # k] ]

BuildTypeNameMap ==
    /\ pc = "BuildTypeNameMap"
    /\ typeNameToObject' = buildTypeNameMap(allFiles)
    /\ fileIdx' = 1
    /\ pc' = "GenerateModelFile"
    /\ UNCHANGED << routerVars, importVars, req, exitCode, failedAt, paramVars, allFiles, allFilesByName, genFiles,
                    outputImportPath, svcIdx, buffer, outVars >>

\* ObjectNamed finds the type name in the index, or fails.
Found(typeName) == typeName \in DOMAIN typeNameToObject
ObjectNamed(typeName) == typeNameToObject[typeName]

(* ----------------------- GoPackageName, AddImport --------------------- *)

\* isGoPredeclaredIdentifier.
isGoPredeclaredIdentifier ==
    { << "a", "p", "p", "e", "n", "d" >>,
      << "b", "o", "o", "l" >>,
      << "b", "y", "t", "e" >>,
      << "c", "a", "p" >>,
      << "c", "l", "o", "s", "e" >>,
      << "c", "o", "m", "p", "l", "e", "x" >>,
      << "c", "o", "m", "p", "l", "e", "x", "1", "2", "8" >>,
      << "c", "o", "m", "p", "l", "e", "x", "6", "4" >>,
      << "c", "o", "p", "y" >>,
      << "d", "e", "l", "e", "t", "e" >>,
      << "e", "r", "r", "o", "r" >>,
      << "f", "a", "l", "s", "e" >>,
      << "f", "l", "o", "a", "t", "3", "2" >>,
      << "f", "l", "o", "a", "t", "6", "4" >>,
      << "i", "m", "a", "g" >>,
      << "i", "n", "t" >>,
      << "i", "n", "t", "1", "6" >>,
      << "i", "n", "t", "3", "2" >>,
      << "i", "n", "t", "6", "4" >>,
      << "i", "n", "t", "8" >>,
      << "i", "o", "t", "a" >>,
      << "l", "e", "n" >>,
      << "m", "a", "k", "e" >>,
      << "n", "e", "w" >>,
      << "n", "i", "l" >>,
      << "p", "a", "n", "i", "c" >>,
      << "p", "r", "i", "n", "t" >>,
      << "p", "r", "i", "n", "t", "l", "n" >>,
      << "r", "e", "a", "l" >>,
      << "r", "e", "c", "o", "v", "e", "r" >>,
      << "r", "u", "n", "e" >>,
      << "s", "t", "r", "i", "n", "g" >>,
      << "t", "r", "u", "e" >>,
      << "u", "i", "n", "t" >>,
      << "u", "i", "n", "t", "1", "6" >>,
      << "u", "i", "n", "t", "3", "2" >>,
      << "u", "i", "n", "t", "6", "4" >>,
      << "u", "i", "n", "t", "8" >>,
      << "u", "i", "n", "t", "p", "t", "r" >> }

\* strconv.Itoa for a positive number.
RECURSIVE Itoa(_)
Itoa(n) ==
    LET digit == << "0", "1", "2", "3", "4", "5", "6", "7", "8", "9" >>[(n % 10) + 1]
    IN  IF n < 10 THEN << digit >> ELSE Itoa(n \div 10) \o << digit >>

\* The tables of one emission pass.
EmptyTables ==
    [ packageNames |-> EmptyMap, usedPackageNames |-> { }, usedPackages |-> { },
      addedImports |-> { } ]
Tables ==
    [ packageNames |-> packageNames, usedPackageNames |-> usedPackageNames,
      usedPackages |-> usedPackages, addedImports |-> addedImports ]

\* The loop of GoPackageName: orig, then orig1, orig2, ... until the name is neither
\* used nor predeclared.
RECURSIVE uniqueName(_, _, _, _)
uniqueName(orig, name, used, i) ==
    IF name \in used \/ name \in isGoPredeclaredIdentifier
    THEN uniqueName(orig, orig \o Itoa(i), used, i + 1)
    ELSE name

\* The end of GoPackageName: the name is recorded for the path and marked used.
recordName(t, importPath, name) ==
    [ name |-> name,
      tables |-> [ t EXCEPT !.packageNames = MapPut(@, importPath, name),
                            !.usedPackageNames = @ \cup { name } ] ]

\* A mutant: the name derived from the path is taken as it is.
GoPackageNameAsDerived(t, importPath) ==
    IF importPath \in DOMAIN t.packageNames
    THEN [ name |-> t.packageNames[importPath], tables |-> t ]
    ELSE recordName(t, importPath, cleanPackageName(baseName(importPath)))

\* The start of the loop of GoPackageName.
firstUniqueName(orig, used) == uniqueName(orig, orig, used, 1)

\* GoPackageName: the name recorded for the path, else a new unique one, recorded.
GoPackageName(t, importPath) ==
    IF importPath \in DOMAIN t.packageNames
    THEN [ name |-> t.packageNames[importPath], tables |-> t ]
    ELSE recordName(t, importPath,
                    firstUniqueName(cleanPackageName(baseName(importPath)),
                                    t.usedPackageNames))

\* AddImport.
AddImport(t, importPath) ==
    GoPackageName([ t EXCEPT !.addedImports = @ \cup { importPath } ], importPath)

\* The calls a pass makes on its tables, in order: GoPackageName, AddImport, and
\* "use", the assignment g.usedPackages[path] = true.
Call(op, importPath) == [ op |-> op, path |-> importPath ]
applyCall(t, c) ==
    IF c.op = "GoPackageName" THEN GoPackageName(t, c.path).tables
    ELSE IF c.op = "AddImport" THEN AddImport(t, c.path).tables
    ELSE [ t EXCEPT !.usedPackages = @ \cup { c.path } ]
RECURSIVE tablesAfter(_, _)
tablesAfter(t, calls) ==
    IF Len(calls) = 0 THEN t ELSE tablesAfter(applyCall(t, Head(calls)), Tail(calls))

\* The assignment of the tables of the next state.
SetTables(t) ==
    /\ packageNames' = t.packageNames
    /\ usedPackageNames' = t.usedPackageNames
    /\ usedPackages' = t.usedPackages
    /\ addedImports' = t.addedImports

NoCall == [ path |-> NoStr, name |-> NoStr ]

\* The import paths the calls of a pass are made with: the names of the request's
\* files.
ImportPaths == { req.protoFile[i].name : i \in DOMAIN req.protoFile }

namesRest == << req, pc, exitCode, failedAt, paramVars, graphVars, passVars, outVars,
               routerVars >>

\* The start of generateModelFile / generateApiFile: the four tables are made anew
\* (and seeded from globalPackageNames, which nothing ever fills).
BeginPass ==
    /\ pc = "names"
    /\ SetTables(EmptyTables)
    /\ lastCall' = NoCall
    /\ UNCHANGED namesRest

\* One call g.GoPackageName(importPath).
CallGoPackageName ==
    /\ pc = "names"
    /\ \E importPath \in ImportPaths :
          LET r == GoPackageName(Tables, importPath)
          IN  /\ SetTables(r.tables)
              /\ lastCall' = [ path |-> importPath, name |-> r.name ]
    /\ UNCHANGED namesRest

\* One call g.AddImport(importPath).
CallAddImport ==
    /\ pc = "names"
    /\ \E importPath \in ImportPaths :
          LET r == AddImport(Tables, importPath)
          IN  /\ SetTables(r.tables)
              /\ lastCall' = [ path |-> importPath, name |-> r.name ]
    /\ UNCHANGED namesRest

(* ---------------------------- generateMessage ------------------------- *)

\* strings.Trim(h, " ").
RECURSIVE TrimSpaces(_)
TrimSpaces(h) ==
    IF Len(h) > 0 /\ h[1] = " " THEN TrimSpaces(Tail(h))
    ELSE IF Len(h) > 0 /\ h[Len(h)] = " " THEN TrimSpaces(SubSeq(h, 1, Len(h) - 1))
    ELSE h

\* customAnnotations of generateService: the text after "@tag" is split at spaces,
\* and a token with a ':' is split into key and value at its first two parts.
RECURSIVE annotationsOfTokens(_, _)
annotationsOfTokens(m, toks) ==
    IF Len(toks) = 0 THEN m
    ELSE LET key == TrimSpaces(Head(toks))
             arr == Split(key, ":")
         IN  annotationsOfTokens(IF ":" \in Range(key) THEN MapPut(m, arr[1], arr[2])
                                 ELSE MapPut(m, key, NoStr),
                                 Tail(toks))

customAnnotationsOf(tag) ==
    IF tag = NoStr THEN EmptyMap ELSE annotationsOfTokens(EmptyMap, Split(tag, " "))

\* methodNames: the names a field may not take.
methodNames ==
    { << "R", "e", "s", "e", "t" >>, << "S", "t", "r", "i", "n", "g" >>, << "P", "r", "o", "t", "o", "M", "e", "s", "s", "a", "g", "e" >>, << "M", "a", "r", "s", "h", "a", "l" >>, << "U", "n", "m", "a", "r", "s", "h", "a", "l" >>,
      << "E", "x", "t", "e", "n", "s", "i", "o", "n", "R", "a", "n", "g", "e", "A", "r", "r", "a", "y" >>, << "E", "x", "t", "e", "n", "s", "i", "o", "n", "M", "a", "p" >>, << "D", "e", "s", "c", "r", "i", "p", "t", "o", "r" >> }

\* A mutant: the names are taken as they are given.
allocNamesAsGiven(usedNames, ns) == ns

\* allocNames of generateMessage: while one of the names is used, '_' is appended to
\* all of them.
RECURSIVE allocNames(_, _)
allocNames(usedNames, ns) ==
    IF \E i \in DOMAIN ns : ns[i] \in usedNames
    THEN allocNames(usedNames, [ i \in DOMAIN ns |-> ns[i] \o << "_" >> ])
    ELSE ns

\* The Go type GoType gives a field that is not a message, a group or an enum.
scalarGoType ==
    [ double |-> << "f", "l", "o", "a", "t", "6", "4" >>, float |-> << "f", "l", "o", "a", "t", "3", "2" >>, int64 |-> << "i", "n", "t", "6", "4" >>,
      uint64 |-> << "u", "i", "n", "t", "6", "4" >>, int32 |-> << "i", "n", "t", "3", "2" >>, uint32 |-> << "u", "i", "n", "t", "3", "2" >>,
      fixed64 |-> << "u", "i", "n", "t", "6", "4" >>, fixed32 |-> << "u", "i", "n", "t", "3", "2" >>, bool |-> << "b", "o", "o", "l" >>,
      string |-> << "s", "t", "r", "i", "n", "g" >>, bytes |-> << "[", "]", "b", "y", "t", "e" >>, sfixed32 |-> << "i", "n", "t", "3", "2" >>,
      sfixed64 |-> << "i", "n", "t", "6", "4" >>, sint32 |-> << "i", "n", "t", "3", "2" >>, sint64 |-> << "i", "n", "t", "6", "4" >> ]

\* needsStar and isRepeated.
needsStar(type) == type \notin { "group", "message", "bytes" }
isRepeated(field) == field.repeated

\* Descriptor.proto3 of a message of file f.
proto3(f) == req.protoFile[f].syntax = "proto3"

\* The well-known types GoType replaces.
wellKnownGoType(typName) ==
    IF typName \in { << "*", "a", "n", "y", "p", "b", ".", "A", "n", "y" >>, << "*", "a", "n", "y", ".", "A", "n", "y" >>, << "*", "_", "s", "t", "r", "u", "c", "t", ".", "V", "a", "l", "u", "e" >>, << "*", "s", "t", "r", "u", "c", "t", ".", "V", "a", "l", "u", "e", "s" >> }
    THEN << "i", "n", "t", "e", "r", "f", "a", "c", "e", "{", "}" >>
    ELSE IF typName \in { << "*", "s", "t", "r", "u", "c", "t", ".", "S", "t", "r", "u", "c", "t" >>, << "*", "_", "s", "t", "r", "u", "c", "t", ".", "S", "t", "r", "u", "c", "t" >> }
    THEN << "m", "a", "p", "[", "s", "t", "r", "i", "n", "g", "]", "i", "n", "t", "e", "r", "f", "a", "c", "e", "{", "}" >>
    ELSE IF typName \in { << "*", "s", "t", "r", "u", "c", "t", ".", "L", "i", "s", "t", "V", "a", "l", "u", "e" >>, << "*", "_", "s", "t", "r", "u", "c", "t", ".", "L", "i", "s", "t", "V", "a", "l", "u", "e" >> }
    THEN << "[", "]", "i", "n", "t", "e", "r", "f", "a", "c", "e", "{", "}" >>
    ELSE typName

\* A text and the tables in force after the call that made it; r with its text
\* replaced.
Text(s, t) == [ s |-> s, tables |-> t ]
WithText(r, s) == [ s |-> s, tables |-> r.tables ]

\* DefaultPackageName and TypeName with the tables t in force: the text, and the
\* tables after the call.
packageDot(r) == Text(r.name \o << "." >>, r.tables)
DefaultPackageNameIn(t, o) ==
    IF allFiles[o.file].name = outputImportPath THEN Text(NoStr, t)
    ELSE packageDot(GoPackageName(t, allFiles[o.file].name))
typeNameAfter(r, o) == WithText(r, r.s \o CamelCaseSlice(objTypeName(allFiles, o)))
TypeNameIn(t, o) == typeNameAfter(DefaultPackageNameIn(t, o), o)

\* A mutant: a type use is recorded whatever file the type is in.
RecordTypeUseAlways(t, typeName) ==
    IF typeName \notin DOMAIN typeNameToObject THEN t
    ELSE [ AddImport(t, allFiles[typeNameToObject[typeName].file].name).tables
             EXCEPT !.usedPackages = @ \cup { allFiles[typeNameToObject[typeName].file].name } ]

\* RecordTypeUse: the tables after the call.
RecordTypeUse(t, typeName) ==
    IF typeName \notin DOMAIN typeNameToObject THEN t
    ELSE IF allFiles[typeNameToObject[typeName].file].name = outputImportPath THEN t
    ELSE [ AddImport(t, allFiles[typeNameToObject[typeName].file].name).tables
             EXCEPT !.usedPackages = @ \cup { allFiles[typeNameToObject[typeName].file].name } ]

\* GoType for a field of a message of file f: the type text, and the tables after.
\* typ is the text the switch on the field's type gives, labelled what the label,
\* the syntax and needsStar make of it.
labelled(typ, f, field) ==
    IF isRepeated(field) THEN << "[", "]" >> \o typ
    ELSE IF proto3(f) THEN typ
    ELSE IF needsStar(field.type) THEN << "*" >> \o typ
    ELSE typ
goTypeOfNamed(named, f, field) ==
    WithText(named,
             labelled(IF field.type = "group" THEN << "*" >> \o named.s
                      ELSE IF field.type = "message" THEN wellKnownGoType(<< "*" >> \o named.s)
                      ELSE named.s,
                      f, field))
GoType(t, f, field) ==
    IF field.type \in { "group", "message", "enum" }
    THEN goTypeOfNamed(TypeNameIn(t, ObjectNamed(field.typeName)), f, field)
    ELSE Text(labelled(scalarGoType[field.type], f, field), t)

\* strings.TrimPrefix(s, "*").
TrimStar(s) == IF Len(s) > 0 /\ s[1] = "*" THEN Tail(s) ELSE s

kOmitempty == << "o", "m", "i", "t", "e", "m", "p", "t", "y" >>

\* A mutant: the JSON name is always marked omittable.
jsonTagAlwaysOmitempty(field) ==
    (IF field.jsonName # NoStr THEN field.jsonName ELSE field.name) \o << ",", "o", "m", "i", "t", "e", "m", "p", "t", "y" >>

\* jsonName and formName of generateMessage, as they are put into the tag.
formTagOf(field) == IF field.jsonName # NoStr THEN field.jsonName ELSE field.name
jsonTagOf(field) ==
    IF kOmitempty \notin DOMAIN customAnnotationsOf(field.tag)
       \/ EqualFold(customAnnotationsOf(field.tag)[kOmitempty], << "t", "r", "u", "e" >>)
    THEN formTagOf(field) \o << ",", "o", "m", "i", "t", "e", "m", "p", "t", "y" >>
    ELSE formTagOf(field)

\* The message a message field refers to is a map entry.
isMapField(field) ==
    /\ field.type = "message"
    /\ ObjectNamed(field.typeName).kind = "msg"
    /\ allFiles[ObjectNamed(field.typeName).file].desc[ObjectNamed(field.typeName).idx].mapEntry

\* A mutant: the type GoType gives is kept for a field of a map entry type.
fieldTypeAsGoType(t, f, field) == GoType(t, f, field)

\* typename of generateMessage: the type GoType gives, replaced for a field whose
\* message is a map entry (object o, its first two fields keyField and valField) by
\* map[key]value; the tables after, the use of a message or enum value type recorded.
mapTypeOf(keyType, valType, valField) ==
    Text(<< "m", "a", "p", "[" >> \o TrimStar(keyType.s) \o << "]" >>
         \o (IF valField.type = "message" THEN valType.s ELSE TrimStar(valType.s)),
         IF valField.type \in { "enum", "message" }
         THEN RecordTypeUse(valType.tables, valField.typeName)
         ELSE valType.tables)
mapTypeAfterKey(keyType, o) ==
    mapTypeOf(keyType, GoType(keyType.tables, o.file, allFiles[o.file].desc[o.idx].Field[2]),
              allFiles[o.file].desc[o.idx].Field[2])
mapTypeAfter(g1, o) ==
    mapTypeAfterKey(GoType(g1.tables, o.file, allFiles[o.file].desc[o.idx].Field[1]), o)
fieldTypeAfter(g1, field) ==
    IF isMapField(field) THEN mapTypeAfter(g1, ObjectNamed(field.typeName)) ELSE g1
fieldType(t, f, field) == fieldTypeAfter(GoType(t, f, field), field)

\* The loop of generateMessage over the fields of message d of file f, from field i
\* on: the fields of the struct, and the tables after.  ns are the names allocNames
\* gave the field and typename is its type.
fieldDecl(field, ns, typename) ==
    [ protoName |-> field.name, goName |-> ns[1], getterName |-> ns[2],
      goType |-> typename.s, json |-> jsonTagOf(field), form |-> formTagOf(field) ]
fieldsAfter(decl, rest) == [ fields |-> << decl >> \o rest.fields, tables |-> rest.tables ]
RECURSIVE fieldsFrom(_, _, _, _, _)
RECURSIVE fieldsWith(_, _, _, _, _, _, _)
fieldsWith(ns, typename, field, usedNames, f, d, i) ==
    fieldsAfter(fieldDecl(field, ns, typename),
                fieldsFrom(RecordTypeUse(typename.tables, field.typeName),
                           usedNames \cup Range(ns), f, d, i + 1))
fieldsFrom(t, usedNames, f, d, i) ==
    IF i > Len(allFiles[f].desc[d].Field) THEN [ fields |-> << >>, tables |-> t ]
    ELSE fieldsWith(allocNames(usedNames,
                               << CamelCase(allFiles[f].desc[d].Field[i].name),
                                  << "G", "e", "t" >> \o CamelCase(allFiles[f].desc[d].Field[i].name) >>),
                    fieldType(t, f, allFiles[f].desc[d].Field[i]),
                    allFiles[f].desc[d].Field[i], usedNames, f, d, i)

\* The loop of generateModelFile over the messages of file f, from message d on: one
\* struct per message that is not a map entry.
structsAfter(struct, rest) ==
    [ structs |-> << struct >> \o rest.structs, tables |-> rest.tables ]
RECURSIVE messagesFrom(_, _, _)
RECURSIVE messagesWith(_, _, _)
messagesWith(m, f, d) ==
    structsAfter([ goName |-> CamelCaseSlice(descTypeName(allFiles[f].desc, d)),
                   desc |-> d, fields |-> m.fields ],
                 messagesFrom(m.tables, f, d + 1))
messagesFrom(t, f, d) ==
    IF d > Len(allFiles[f].desc) THEN [ structs |-> << >>, tables |-> t ]
    ELSE IF allFiles[f].desc[d].mapEntry THEN messagesFrom(t, f, d + 1)
    ELSE messagesWith(fieldsFrom(t, methodNames, f, d, 1), f, d)

\* generateImported for entry id of g.file.imp: nothing for an object of the same
\* package, else the package of its file is marked used, and named when the object
\* has exported symbols (an enum whose file was emitted before).
generateImported(t, f, id) ==
    IF allFiles[id.file].importPath = allFiles[f].importPath
       /\ allFiles[id.file].package = allFiles[f].package
    THEN t
    ELSE IF id.kind = "enum" /\ id.file < f
    THEN GoPackageName([ t EXCEPT !.usedPackages = @ \cup { allFiles[id.file].importPath } ],
                       allFiles[id.file].importPath).tables
    ELSE [ t EXCEPT !.usedPackages = @ \cup { allFiles[id.file].importPath } ]
RECURSIVE importedTables(_, _, _)
importedTables(t, f, k) ==
    IF k > Len(allFiles[f].imp) THEN t
    ELSE importedTables(generateImported(t, f, allFiles[f].imp[k]), f, k + 1)

\* strings.Contains.
Contains(s, sub) ==
    \E i \in 0..(Len(s) - Len(sub)) : SubSeq(s, i + 1, i + Len(sub)) = sub

\* Generator.weak.
weak(f, i) == i \in Range(req.protoFile[f].weakDependency)

\* A mutant: every dependency is imported.
importsOfAllFrom(t, f, i, imports) ==
    [ imports |-> [ k \in DOMAIN req.protoFile[f].dependency |->
                      [ importPath |-> req.protoFile[f].dependency[k],
                        packageName |-> cleanPackageName(baseName(req.protoFile[f].dependency[k])),
                        line |-> ImportPrefix
                                 \o cleanPackageName(baseName(req.protoFile[f].dependency[k])) ] ],
      tables |-> t ]

\* The loop of generateImports over the dependencies of file f, from the i-th on: a
\* dependency that is not weak, is not one of the google files and was marked used
\* is imported under its package name r.name, once.
RECURSIVE importsFrom(_, _, _, _)
RECURSIVE importsWith(_, _, _, _, _)
importsWith(r, importPath, f, i, imports) ==
    IF importPath \notin r.tables.usedPackages
    THEN importsFrom(r.tables, f, i + 1, imports)
    ELSE IF \E k \in DOMAIN imports : imports[k].packageName = r.name
    THEN importsFrom(r.tables, f, i + 1, imports)
    ELSE importsFrom(r.tables, f, i + 1,
                     Append(imports, [ importPath |-> importPath, packageName |-> r.name,
                                       line |-> ImportPrefix \o r.name ]))
importsFrom(t, f, i, imports) ==
    IF i > Len(req.protoFile[f].dependency) THEN [ imports |-> imports, tables |-> t ]
    ELSE IF weak(f, i - 1) THEN importsFrom(t, f, i + 1, imports)
    ELSE IF \/ Contains(req.protoFile[f].dependency[i], << "/", "p", "r", "o", "t", "o", "b", "u", "f", "/" >>)
            \/ Contains(req.protoFile[f].dependency[i], << "g", "o", "o", "g", "l", "e", "/", "a", "p", "i" >>)
            \/ Contains(req.protoFile[f].dependency[i], << "/", "g", "o", "o", "g", "l", "e", "a", "p", "i", "s", "/" >>)
    THEN importsFrom(t, f, i + 1, imports)
    ELSE importsWith(GoPackageName(t, req.protoFile[f].dependency[i]),
                     req.protoFile[f].dependency[i], f, i, imports)

\* The model pass of file f: the structs, the imports, and the tables it ends with.
passWith(m, im) == [ structs |-> m.structs, imports |-> im.imports, tables |-> im.tables ]
passAfter(m, f) == passWith(m, importsFrom(m.tables, f, 1, << >>))
modelPass(f) == passAfter(messagesFrom(importedTables(EmptyTables, f, 1), f, 1), f)

(* --------------------------- GenerateAllFiles ------------------------- *)

\* FileDescriptor.goFileName: the name without .proto, moved under the lower-cased
\* package when the file has one, then "." + typ + ".go".
goFileName(fd, typ) ==
    LET name0 == IF PathExt(fd.name) \in { DotProto, DotProtoDevel }
                 THEN SubSeq(fd.name, 1, Len(fd.name) - Len(PathExt(fd.name)))
                 ELSE fd.name
        arr == Split(name0, "/")
        name1 == IF fd.package # NoStr
                 THEN ToLower(fd.package) \o << "/" >> \o (IF Len(arr) = 2 THEN arr[2] ELSE arr[1])
                 ELSE name0
    IN  name1 \o << "." >> \o typ \o << ".", "g", "o" >>

tModel == << "m", "o", "d", "e", "l" >>
tApi == << "a", "p", "i" >>

\* A mutant: every wrapped file counts as one to generate.
writeOutputAlways(f) == f \in DOMAIN allFiles

\* genFileMap[file]: the file is one of those to generate.
writeOutput(f) == f \in Range(genFiles)

\* The type names GoType looks up for the fields of one message: every message,
\* group and enum field, and for a field whose message is a map entry the
\* message, group and enum types of the entry's key and value fields.
isNamedType(field) == field.type \in { "message", "group", "enum" }
lookupsOfField(field) ==
    IF ~isNamedType(field) THEN { }
    ELSE { field.typeName } \cup
         ( IF field.type = "message" /\ Found(field.typeName)
              /\ ObjectNamed(field.typeName).kind = "msg"
           THEN LET o == ObjectNamed(field.typeName)
                    d == allFiles[o.file].desc[o.idx]
                IN  IF d.mapEntry
                    THEN { d.Field[i].typeName : i \in { j \in 1..2 : isNamedType(d.Field[j]) } }
                    ELSE { }
           ELSE { } )

\* generateModelFile reaches a type name that ObjectNamed does not find.
modelLookupMiss(fd) ==
    \E d \in DOMAIN fd.desc :
        /\ ~fd.desc[d].mapEntry
        /\ \E i \in DOMAIN fd.desc[d].Field :
              \E t \in lookupsOfField(fd.desc[d].Field[i]) : ~Found(t)

\* The declarations of a model file: one per enum, one per message that is not a
\* map entry, under the CamelCased type name.
RECURSIVE messageDeclsFrom(_, _)
messageDeclsFrom(fd, d) ==
    IF d > Len(fd.desc) THEN << >>
    ELSE (IF fd.desc[d].mapEntry THEN << >> ELSE << CamelCaseSlice(descTypeName(fd.desc, d)) >>)
         \o messageDeclsFrom(fd, d + 1)

modelContent(f, pass) ==
    [ enums |-> [ e \in DOMAIN allFiles[f].enum |-> CamelCaseSlice(enumTypeName(allFiles[f], e)) ],
      messages |-> messageDeclsFrom(allFiles[f], 1),
      structs |-> pass.structs,
      imports |-> pass.imports ]

\* One entry of the response. file and typ record which file of allFiles and
\* which pass produced the entry.
ResponseFile(name, content, f, typ) ==
    [ name |-> name, content |-> content, file |-> f, typ |-> typ ]

\* The loop of GenerateAllFiles goes on to the next file, or ends.
NextFile ==
    IF fileIdx < Len(allFiles)
    THEN fileIdx' = fileIdx + 1 /\ pc' = "GenerateModelFile"
    ELSE fileIdx' = fileIdx /\ pc' = "WriteResponse"

\* The end of generateModelFile with what the pass made and, for a file to
\* generate, the append of its model file to the response.
EmitModelFile(pass) ==
    /\ SetTables(pass.tables)
    /\ IF writeOutput(fileIdx)
       THEN /\ Response' = Append(Response,
                    ResponseFile(goFileName(allFiles[fileIdx], tModel),
                                 modelContent(fileIdx, pass), fileIdx, "model"))
            /\ pc' = "BeginApiFile"
            /\ UNCHANGED << fileIdx, exitCode, failedAt >>
       ELSE /\ NextFile
            /\ UNCHANGED << Response, exitCode, failedAt >>

\* generateModelFile for the file at fileIdx.
GenerateModelFile ==
    /\ pc = "GenerateModelFile"
    /\ IF modelLookupMiss(allFiles[fileIdx])
       THEN Fail("can't find object with type") /\ UNCHANGED << fileIdx, Response, tableVars >>
       ELSE EmitModelFile(modelPass(fileIdx))
    /\ UNCHANGED << routerVars, lastCall, req, paramVars, graphVars, svcIdx, buffer, manifest, stdout >>

(* ------------------------------ API pass ------------------------------ *)

kMiddleware == << "m", "i", "d", "d", "l", "e", "w", "a", "r", "e" >>
s500 == << "5", "0", "0" >>
s400 == << "4", "0", "0" >>
sJson == << "j", "s", "o", "n" >>

\* middlewares of generateClientMethod.
middlewaresOf(annotations) ==
    IF kMiddleware \in DOMAIN annotations THEN Split(annotations[kMiddleware], ",") ELSE << >>

\* gec of generateClientMethod: GEN_ERROR_CODE, "500" when it is unset.
gecOf(env) == IF env = NoStr THEN s500 ELSE env

\* g.file: the file GenerateAllFiles is at.
gFile == allFiles[fileIdx]

\* DefaultPackageName: nothing for an object of the first file to generate, else
\* the package name GoPackageName gives the name of the object's file, and a dot.
\* The name is read with the tables the pass has reached.
DefaultPackageName(o) == DefaultPackageNameIn(Tables, o).s

\* Generator.TypeName and the text Generator.typeName returns.
TypeName(o) == DefaultPackageName(o) \o CamelCaseSlice(objTypeName(allFiles, o))
typeName(str) == TypeName(ObjectNamed(str))

\* The tables after Generator.typeName(str): RecordTypeUse, then TypeName.
typeNameTables(t, str) == TypeNameIn(RecordTypeUse(t, str), ObjectNamed(str)).tables

\* The tables after generateService: generateClientSignature and generateClientMethod
\* call typeName for the input and the output type of every method (the second
\* round of calls finds every name recorded by the first).
RECURSIVE serviceTablesFrom(_, _, _)
serviceTablesFrom(t, methods, i) ==
    IF i > Len(methods) THEN t
    ELSE serviceTablesFrom(typeNameTables(typeNameTables(t, methods[i].inputType),
                                          methods[i].outputType),
                           methods, i + 1)

sTypesEmpty == << "t", "y", "p", "e", "s", ".", "E", "m", "p", "t", "y" >>
sEmptyEmpty == << "e", "m", "p", "t", "y", ".", "E", "m", "p", "t", "y" >>
sRouterEmpty == << "r", "o", "u", "t", "e", "r", ".", "E", "m", "p", "t", "y" >>

\* The loop of generateClientMethod over g.file.desc: the first message of the file
\* that is not a map entry and whose CamelCased type name is inType, 0 when there is
\* none.
RECURSIVE firstDescNamed(_, _, _)
firstDescNamed(fd, inType, d) ==
    IF d > Len(fd.desc) THEN 0
    ELSE IF ~fd.desc[d].mapEntry /\ CamelCaseSlice(descTypeName(fd.desc, d)) = inType THEN d
    ELSE firstDescNamed(fd, inType, d + 1)

\* needBind of generateClientMethod.
needBind(method) ==
    LET inType == typeName(method.inputType)
        d == firstDescNamed(gFile, inType, 1)
    IN  IF inType \in { sTypesEmpty, sEmptyEmpty } THEN FALSE
        ELSE IF d # 0 /\ Len(gFile.desc[d].Field) = 0 THEN FALSE
        ELSE TRUE

kBindcheck == << "b", "i", "n", "d", "c", "h", "e", "c", "k" >>
kBinding == << "b", "i", "n", "d", "i", "n", "g" >>
sFalse == << "f", "a", "l", "s", "e" >>
sForm == << "f", "o", "r", "m" >>
sQuery == << "q", "u", "e", "r", "y" >>
sFormPost == << "f", "o", "r", "m", "p", "o", "s", "t" >>
sFormMultipart == << "f", "o", "r", "m", "m", "u", "l", "t", "i", "p", "a", "r", "t" >>

\* bindCheck and binding of generateClientMethod.
bindCheckOf(annotations) ==
    ~(kBindcheck \in DOMAIN annotations /\ EqualFold(annotations[kBindcheck], sFalse))
bindingOf(annotations) == IF kBinding \in DOMAIN annotations THEN annotations[kBinding] ELSE sJson

\* A mutant: the directive's value is compared as written.
bindingStrategyExact(binding) ==
    IF binding = sForm THEN [ mth |-> "ShouldBindWith", type |-> "Form" ]
    ELSE IF binding = sQuery THEN [ mth |-> "ShouldBindWith", type |-> "Query" ]
    ELSE IF binding = sFormPost THEN [ mth |-> "ShouldBindWith", type |-> "FormPost" ]
    ELSE IF binding = sFormMultipart THEN [ mth |-> "ShouldBindWith", type |-> "FormMultipart" ]
    ELSE [ mth |-> "ShouldBindBodyWith", type |-> "JSON" ]

\* The switch on strings.ToLower(binding): bindingMth and bindingType.
bindingStrategy(binding) ==
    LET b == ToLower(binding)
    IN  IF b = sForm THEN [ mth |-> "ShouldBindWith", type |-> "Form" ]
        ELSE IF b = sQuery THEN [ mth |-> "ShouldBindWith", type |-> "Query" ]
        ELSE IF b = sFormPost THEN [ mth |-> "ShouldBindWith", type |-> "FormPost" ]
        ELSE IF b = sFormMultipart THEN [ mth |-> "ShouldBindWith", type |-> "FormMultipart" ]
        ELSE [ mth |-> "ShouldBindBodyWith", type |-> "JSON" ]

NoBind == [ call |-> "none", type |-> "", checked |-> FALSE ]

\* A mutant: a GET method binds as the directive says.
bindCallAsDirected(isGet, need, annotations) ==
    IF ~need THEN NoBind
    ELSE [ call |-> bindingStrategy(bindingOf(annotations)).mth,
           type |-> bindingStrategy(bindingOf(annotations)).type,
           checked |-> bindCheckOf(annotations) ]

\* The bind call the closure gets: none when binding is not needed, ShouldBindQuery
\* for a GET method, else the method and type of the binding directive; checked says
\* whether its error is tested.
bindCall(isGet, need, annotations) ==
    IF ~need THEN NoBind
    ELSE IF isGet THEN [ call |-> "ShouldBindQuery", type |-> "", checked |-> bindCheckOf(annotations) ]
    ELSE [ call |-> bindingStrategy(bindingOf(annotations)).mth,
           type |-> bindingStrategy(bindingOf(annotations)).type,
           checked |-> bindCheckOf(annotations) ]

\* The lines generateClientMethod emits for one method.  A GET or POST pattern
\* emits the line that opens the route's closure (router.Handle with the middleware
\* names when there are some, g.GET / g.POST otherwise); any other pattern emits no
\* such line.  The closure's statements and the closing "})" are emitted in every
\* case.
clientMethodLines(method, env) ==
    LET mws == middlewaresOf(customAnnotationsOf(method.tag))
        verb == IF method.pattern = "get" THEN "GET" ELSE "POST"
        open == IF method.pattern \in { "get", "post" }
                THEN << [ line |-> "open", via |-> IF Len(mws) > 0 THEN "router.Handle" ELSE "engine",
                          verb |-> verb, url |-> method.url, middlewares |-> mws ] >>
                ELSE << >>
        noJSON == method.responseBody # NoStr /\ method.responseBody # sJson
        inType == IF typeName(method.inputType) \in { sTypesEmpty, sEmptyEmpty }
                  THEN sRouterEmpty ELSE typeName(method.inputType)
    IN  open \o << [ line |-> "body", method |-> CamelCase(method.name), noJSON |-> noJSON,
                     gec |-> gecOf(env), inType |-> inType,
                     bind |-> bindCall(method.pattern = "get", needBind(method),
                                       customAnnotationsOf(method.tag)) ],
                   [ line |-> "close" ] >>

\* The lines of generateService for one service: the handler interface, the
\* opening of the Register function, every method's lines, the closing brace.
RECURSIVE methodLinesFrom(_, _, _)
methodLinesFrom(methods, i, env) ==
    IF i > Len(methods) THEN << >>
    ELSE clientMethodLines(methods[i], env) \o methodLinesFrom(methods, i + 1, env)

serviceLines(service, env) ==
    << [ line |-> "interface", name |-> CamelCase(service.name) ],
       [ line |-> "funcOpen", name |-> CamelCase(service.name) ] >>
    \o methodLinesFrom(service.method, 1, env)
    \o << [ line |-> "funcClose" ] >>

\* What stops generateService before generateHandler: a method type that
\* ObjectNamed does not find (the signatures come first), else a method without the
\* google.api.http option.
serviceLookupMiss(service) ==
    \E i \in DOMAIN service.method :
        ~Found(service.method[i].inputType) \/ ~Found(service.method[i].outputType)
serviceNoHttp(service) == \E i \in DOMAIN service.method : ~service.method[i].hasHttp

\* hasBinding of generateApiFile: some method of some service of the file had
\* needBind set.
hasBinding(f) ==
    \E i \in DOMAIN req.protoFile[f].service :
        \E j \in DOMAIN req.protoFile[f].service[i].method :
            needBind(req.protoFile[f].service[i].method[j])

sGin == << "g", "i", "t", "h", "u", "b", ".", "c", "o", "m", "/", "g", "i", "n", "-", "g", "o", "n", "i", "c", "/", "g", "i", "n" >>
sGinBinding == sGin \o << "/", "b", "i", "n", "d", "i", "n", "g" >>

\* generateApiImports: the import block of an API file; none is written for a file
\* without services.
apiImports(f, binding, imports) ==
    IF Len(req.protoFile[f].service) = 0 THEN << >>
    ELSE << sGin >> \o (IF binding THEN << sGinBinding >> ELSE << >>)
         \o << MapGet(Param, kRepo) \o << "/", "r", "o", "u", "t", "e", "r" >> >>
         \o [ k \in DOMAIN imports |-> imports[k].line ]

\* parser.ParseFile on the emitted lines: braces must nest.  depth is the stack of
\* what is open: "f" a function body, "c" a closure passed as a call argument.
RECURSIVE ParsesFrom(_, _, _)
ParsesFrom(lines, i, open) ==
    IF i > Len(lines) THEN open = << >>
    ELSE LET l == lines[i].line
         IN  IF l = "funcOpen" THEN open = << >> /\ ParsesFrom(lines, i + 1, << "f" >>)
             ELSE IF l = "open" THEN Len(open) > 0 /\ ParsesFrom(lines, i + 1, << "c" >> \o open)
             ELSE IF l = "close" THEN Len(open) > 0 /\ Head(open) = "c"
                                     /\ ParsesFrom(lines, i + 1, Tail(open))
             ELSE IF l = "funcClose" THEN Len(open) > 0 /\ Head(open) = "f"
                                         /\ ParsesFrom(lines, i + 1, Tail(open))
             ELSE IF l = "body" THEN Len(open) > 0 /\ ParsesFrom(lines, i + 1, open)
             ELSE open = << >> /\ ParsesFrom(lines, i + 1, open)

Parses(lines) == ParsesFrom(lines, 1, << >>)

\* The manifest file: absent, not a JSON object of strings, or such an object.
ManifestAbsent == [ state |-> "absent", entries |-> EmptyMap ]
ManifestInvalid == [ state |-> "invalid", entries |-> EmptyMap ]
ManifestObject(m) == [ state |-> "object", entries |-> m ]

\* A mutant: the manifest is rebuilt from the new entry alone.
generateHandlerFresh(file, k, v) == ManifestObject(MapPut(EmptyMap, k, v))

\* A mutant: a manifest that cannot be read is started empty.
generateHandlerCreates(file, k, v) == ManifestObject(MapPut(file.entries, k, v))

\* generateHandler, once the file has been read and decoded: m[k] = v, and the
\* file is written back.
generateHandler(file, k, v) ==
    IF file.state = "object" THEN ManifestObject(MapPut(file.entries, k, v)) ELSE file

\* The key and the value generateService passes to generateHandler: the directory
\* of the API file's name + "/" + the CamelCased service name, and that directory.
handlerPath(fd) == PathDir(goFileName(fd, tApi))
handlerKey(fd, service) == handlerPath(fd) \o << "/" >> \o CamelCase(service.name)

\* generateApiFile up to its services: the buffer is empty.
BeginApiFile ==
    /\ pc = "BeginApiFile"
    /\ buffer' = << >>
    /\ svcIdx' = 1
    /\ pc' = IF Len(req.protoFile[fileIdx].service) > 0 THEN "GenerateService" ELSE "FinishApiFile"
    /\ SetTables(importedTables(EmptyTables, fileIdx, 1))
    /\ UNCHANGED << routerVars, lastCall, req, exitCode, failedAt, paramVars, graphVars, fileIdx, outVars >>

\* generateService for the service at svcIdx of the file at fileIdx.
GenerateService ==
    /\ pc = "GenerateService"
    /\ LET fd == allFiles[fileIdx]
           service == req.protoFile[fileIdx].service[svcIdx]
           written == generateHandler(manifest, handlerKey(fd, service), handlerPath(fd))
       IN  IF serviceLookupMiss(service)
           THEN Fail("can't find object with type") /\ UNCHANGED << svcIdx, buffer, manifest, tableVars >>
           ELSE IF serviceNoHttp(service)
           THEN Fail("option google.api.http not found") /\ UNCHANGED << svcIdx, buffer, manifest, tableVars >>
           ELSE IF written.state = "absent"
           THEN Fail("handler.json file not found") /\ UNCHANGED << svcIdx, buffer, manifest, tableVars >>
           ELSE IF written.state = "invalid"
           THEN Fail("handler.json file content error") /\ UNCHANGED << svcIdx, buffer, manifest, tableVars >>
           ELSE /\ buffer' = buffer \o serviceLines(service, req.genErrorCode)
                /\ manifest' = written
                /\ svcIdx' = svcIdx + 1
                /\ SetTables(serviceTablesFrom(Tables, service.method, 1))
                /\ pc' = IF svcIdx < Len(req.protoFile[fileIdx].service)
                         THEN "GenerateService" ELSE "FinishApiFile"
                /\ UNCHANGED << exitCode, failedAt >>
    /\ UNCHANGED << routerVars, lastCall, req, paramVars, graphVars, fileIdx, Response, stdout >>

\* The end of generateApiFile (the text is parsed and printed again) and the append
\* of the API file to the response.
EmitApiFile(im) ==
    /\ Response' = Append(Response,
            ResponseFile(goFileName(allFiles[fileIdx], tApi),
                         [ lines |-> buffer,
                           imports |-> apiImports(fileIdx, hasBinding(fileIdx), im.imports) ],
                         fileIdx, "api"))
    /\ SetTables(im.tables)
    /\ NextFile
    /\ UNCHANGED << exitCode, failedAt >>

FinishApiFile ==
    /\ pc = "FinishApiFile"
    /\ IF ~Parses(buffer)
       THEN Fail("bad Go source code was generated")
            /\ UNCHANGED << fileIdx, Response, tableVars >>
       ELSE EmitApiFile(IF Len(req.protoFile[fileIdx].service) > 0
                        THEN importsFrom(Tables, fileIdx, 1, << >>)
                        ELSE [ imports |-> << >>, tables |-> Tables ])
    /\ UNCHANGED << routerVars, lastCall, req, paramVars, graphVars, svcIdx, buffer, manifest, stdout >>

(* -------------------------------- main -------------------------------- *)

\* main up to CommandLineParameters: the request is read and decoded.
ReadRequest ==
    /\ pc = "main"
    /\ IF ~req.parsable THEN Fail("parsing input proto")
       ELSE IF Len(req.fileToGenerate) = 0 THEN Fail("no files to generate")
       ELSE pc' = "CommandLineParameters" /\ UNCHANGED << exitCode, failedAt >>
    /\ UNCHANGED << routerVars, importVars, req, paramVars, graphVars, passVars, outVars >>

\* The end of main: the response is encoded and written to standard output.  A
\* write that fails may have written a part.
WriteResponse ==
    /\ pc = "WriteResponse"
    /\ \/ /\ stdout' = Response
          /\ exitCode' = 0
          /\ pc' = "done"
          /\ UNCHANGED failedAt
       \/ /\ \E n \in 0..(Len(Response) - 1) : stdout' = SubSeq(Response, 1, n)
          /\ Fail("failed to write output proto")
    /\ UNCHANGED << routerVars, importVars, req, paramVars, graphVars, passVars, Response, manifest >>

(* ---------------------- the generated routing layer -------------------- *)

sZero == << "0" >>
sErr == << "e", "r", "r" >>
sNotFound == << " ", "n", "o", "t", " ", "f", "o", "u", "n", "d" >>

\* router.Response as router.Error (data nil) and router.JSON (data the output)
\* fill it and write it with ctx.JSON.
Envelope(code, msg, data) == [ code |-> code, msg |-> msg, data |-> data ]
ErrorEnvelope(code, msg) == Envelope(code, msg, "nil")
SuccessEnvelope == Envelope(sZero, NoStr, "output")

\* The closure generateClientMethod emits after the opening line of a route: it
\* binds the input, calls the user's handler and answers a failure of either with
\* the code gec.
Closure(body) ==
    [ kind |-> "closure", method |-> body.method, noJSON |-> body.noJSON, gec |-> body.gec,
      bind |-> body.bind ]

\* The handler Handle registers for a route with a name it did not find.
NotFoundHandler(name) == [ kind |-> "notFound", name |-> name, code |-> s500 ]

\* The routes the generated Register function registers, in order: each opening
\* line with the closure that follows it.
RECURSIVE routesFrom(_, _)
routesFrom(lines, i) ==
    IF i > Len(lines) THEN << >>
    ELSE (IF lines[i].line = "open"
          THEN << [ open |-> lines[i], closure |-> Closure(lines[i + 1]) ] >>
          ELSE << >>)
         \o routesFrom(lines, i + 1)

\* The loop of Handle: the handlers of the names before the first one that mIns does
\* not hold, and that name ("" when the loop ends without a break).
RECURSIVE resolveFrom(_, _, _)
resolveFrom(reg, middlewares, i) ==
    IF i > Len(middlewares) THEN [ handlers |-> << >>, notFound |-> NoStr ]
    ELSE IF middlewares[i] \in DOMAIN reg
         THEN LET rest == resolveFrom(reg, middlewares, i + 1)
              IN  [ handlers |-> << reg[middlewares[i]] >> \o rest.handlers,
                    notFound |-> rest.notFound ]
    ELSE [ handlers |-> << >>, notFound |-> middlewares[i] ]

\* What g.Handle(method, path, handlers...) adds to the engine.
Route(method, path, handlers) == [ method |-> method, path |-> path, handlers |-> handlers ]

\* A mutant: the names that are not found are skipped.
HandleSkipsMissing(reg, method, path, middlewares, handler) ==
    Route(method, path,
          Append([ i \in 1..Len(resolveFrom(reg, middlewares, 1).handlers) |->
                     resolveFrom(reg, middlewares, 1).handlers[i] ], handler))

\* A mutant: the closure is put before the middleware handlers.
HandleClosureFirst(reg, method, path, middlewares, handler) ==
    LET r == resolveFrom(reg, middlewares, 1)
    IN  IF r.notFound # NoStr
        THEN Route(method, path, << NotFoundHandler(r.notFound) >>)
        ELSE Route(method, path, << handler >> \o r.handlers)

\* router.Handle.
Handle(reg, method, path, middlewares, handler) ==
    LET r == resolveFrom(reg, middlewares, 1)
    IN  IF r.notFound # NoStr
        THEN Route(method, path, << NotFoundHandler(r.notFound) >>)
        ELSE Route(method, path, Append(r.handlers, handler))

MiddlewareNames == { << "a" >>, << "b" >>, NoStr }
MiddlewareHandlers == { "h1", "h2" }

\* router.RegisterMiddleware: mIns.Store(name, handler).
RegisterMiddleware ==
    /\ pc = "router"
    /\ \E name \in MiddlewareNames, h \in MiddlewareHandlers :
          mIns' = MapPut(mIns, name, [ kind |-> "middleware", handler |-> h ])
    /\ UNCHANGED << genVars, engine, registered, served >>

\* One route of the generated Register<Service>Handler: router.Handle when the
\* method has middleware names, g.GET / g.POST otherwise.  middlewares and mInsThen
\* record the names passed and what mIns held at that time.
RegisterHandler ==
    /\ pc = "router"
    /\ registered < Len(routesFrom(buffer, 1))
    /\ LET r == routesFrom(buffer, 1)[registered + 1]
           route == IF r.open.via = "router.Handle"
                    THEN Handle(mIns, r.open.verb, r.open.url, r.open.middlewares, r.closure)
                    ELSE Route(r.open.verb, r.open.url, << r.closure >>)
       IN  engine' = Append(engine, [ route |-> route, middlewares |-> r.open.middlewares,
                                      mInsThen |-> mIns ])
    /\ registered' = registered + 1
    /\ UNCHANGED << genVars, mIns, served >>

\* Mutants of the closure: the bind error is never tested; the bind error is tested
\* whatever bindcheck says; the return after router.Error is missing.
runClosureUnchecked(c, bindFails, handlerFails) ==
    IF c.noJSON THEN [ userHandler |-> TRUE, envelopes |-> << >> ]
    ELSE IF handlerFails
         THEN [ userHandler |-> TRUE, envelopes |-> << ErrorEnvelope(c.gec, sErr) >> ]
    ELSE [ userHandler |-> TRUE, envelopes |-> << SuccessEnvelope >> ]
runClosureChecked(c, bindFails, handlerFails) ==
    IF c.bind.call # "none" /\ bindFails
    THEN [ userHandler |-> FALSE, envelopes |-> << ErrorEnvelope(c.gec, sErr) >> ]
    ELSE runClosureUnchecked(c, bindFails, handlerFails)
runClosureNoReturn(c, bindFails, handlerFails) ==
    IF c.bind.call # "none" /\ c.bind.checked /\ bindFails
    THEN [ userHandler |-> FALSE, envelopes |-> << ErrorEnvelope(c.gec, sErr) >> ]
    ELSE IF c.noJSON THEN [ userHandler |-> TRUE, envelopes |-> << >> ]
    ELSE IF handlerFails
         THEN [ userHandler |-> TRUE,
                envelopes |-> << ErrorEnvelope(c.gec, sErr), SuccessEnvelope >> ]
    ELSE [ userHandler |-> TRUE, envelopes |-> << SuccessEnvelope >> ]

\* The closure generateClientMethod emits, run for one request: a bind whose error
\* is tested answers a failure with router.Error and returns; then the user's
\* handler is called, and unless the method opted out of the envelope its error is
\* answered with router.Error, its success with router.JSON.
runClosure(c, bindFails, handlerFails) ==
    IF c.bind.call # "none" /\ c.bind.checked /\ bindFails
    THEN [ userHandler |-> FALSE, envelopes |-> << ErrorEnvelope(c.gec, sErr) >> ]
    ELSE IF c.noJSON THEN [ userHandler |-> TRUE, envelopes |-> << >> ]
    ELSE IF handlerFails
         THEN [ userHandler |-> TRUE, envelopes |-> << ErrorEnvelope(c.gec, sErr) >> ]
    ELSE [ userHandler |-> TRUE, envelopes |-> << SuccessEnvelope >> ]

\* What the last handler that ran does: the not-found handler of Handle answers
\* with router.Error, a middleware that aborts writes no envelope, the closure runs.
runLast(last, bindFails, handlerFails) ==
    IF last.kind = "notFound"
    THEN [ userHandler |-> FALSE,
           envelopes |-> << ErrorEnvelope(last.code,
                                          kMiddleware \o << ":", " " >> \o last.name \o sNotFound) >> ]
    ELSE IF last.kind = "middleware" THEN [ userHandler |-> FALSE, envelopes |-> << >> ]
    ELSE runClosure(last, bindFails, handlerFails)

\* A request to a registered route: the engine runs the route's handlers in order; a
\* middleware may abort the chain (abortAt), the closure's bind or the user's handler
\* may fail.  bindFailed and handlerFailed record the failures that happened.
ServeRequest ==
    /\ pc = "router"
    /\ \E r \in DOMAIN engine, bindFails \in BOOLEAN, handlerFails \in BOOLEAN :
          LET hs == engine[r].route.handlers
          IN  \E abortAt \in { 0 } \cup { i \in DOMAIN hs : hs[i].kind = "middleware" } :
                 LET invoked == IF abortAt = 0 THEN hs ELSE SubSeq(hs, 1, abortAt)
                     last == invoked[Len(invoked)]
                     ran == runLast(last, bindFails, handlerFails)
                 IN  served' = [ route |-> r, invoked |-> invoked,
                                 bindFailed |-> /\ last.kind = "closure"
                                                /\ last.bind.call # "none"
                                                /\ bindFails,
                                 userHandler |-> ran.userHandler,
                                 handlerFailed |-> ran.userHandler /\ handlerFails,
                                 envelopes |-> ran.envelopes,
                                 mInsNow |-> DOMAIN mIns ]
    /\ UNCHANGED << genVars, mIns, engine, registered >>

(* ----------------------------- the requests --------------------------- *)

\* The order-preserving selections of the file names of files, and one that names
\* a file the request does not hold.
RECURSIVE SubSeqsOf(_)
SubSeqsOf(seq) ==
    IF Len(seq) = 0 THEN { << >> }
    ELSE LET rest == SubSeqsOf(Tail(seq))
         IN  rest \cup { << Head(seq) >> \o r : r \in rest }

Selections(files) ==
    LET names == [ i \in DOMAIN files |-> files[i].name ]
    IN  (SubSeqsOf(names) \ { << >> }) \cup { << names[1], fileMissing >> }

\* Requests about type declarations: two files, the first one to generate, each
\* with no package, package p or package p.A, declaring a chain of nested messages
\* with or without an enum, a top-level enum, or both.
TypeShapes ==
    { [ m |-> << c >>, e |-> << >> ] : c \in Chains }
    \cup { [ m |-> << >>, e |-> << sA >> ],
           [ m |-> << ChainProto(1, 1, 0) >>, e |-> << sA >> ],
           [ m |-> << Message(sB, << >>, << >>, << >>, FALSE) >>, e |-> << >> ] }

TypeFiles(i) ==
    { File(FileNameAt(i), pkg, NoStr, sh.m, sh.e, << >>) :
        pkg \in { NoStr, pkgP, pkgPA }, sh \in TypeShapes }

TypeRequests ==
    { Request(<< f1, f2 >>, << f1.name >>, NoStr, ManifestObject(EmptyMap), NoStr) :
        f1 \in TypeFiles(1), f2 \in TypeFiles(2) }

\* Requests about packages: up to MaxFiles files without declarations, with or
\* without a package and a go_package option, any selection to generate, and the
\* parameters that bear on import paths and package names.
gpQ == << "q" >>
gpGQ == << "g", "/", "q" >>
gpGHR == << "g", "/", "h", ";", "r" >>

PkgFiles(i) ==
    { File(FileNameAt(i), NoStr, NoStr, << >>, << >>, << >>),
      File(FileNameAt(i), pkgP, NoStr, << >>, << >>, << >>),
      File(FileNameAt(i), pkgP, gpQ, << >>, << >>, << >>),
      File(FileNameAt(i), NoStr, gpGQ, << >>, << >>, << >>),
      File(FileNameAt(i), pkgP, gpGHR, << >>, << >>, << >>) }

RECURSIVE PkgFileSeqs(_)
PkgFileSeqs(n) ==
    IF n = 0 THEN { << >> }
    ELSE { Append(fs, f) : fs \in PkgFileSeqs(n - 1), f \in PkgFiles(n) }

vBogus == << "x" >>
PkgParameters ==
    { NoStr,
      Token(kPaths, vBogus),
      Join(<< Token(<< "M" >> \o fileY, << "g", "/", "h" >>), Token(kPaths, vSourceRelative) >>,
           << "," >>),
      Join(<< Token(kImportPath, gpGQ), kRepo >>, << "," >>),
      Join(<< Token(<< "M" >> \o fileY, << "g", "/", "h" >>), Token(kImportPath, gpGQ) >>,
           << "," >>) }

PkgRequests ==
    UNION { { Request(fs, sel, par, ManifestObject(EmptyMap), NoStr) :
                sel \in Selections(fs), par \in PkgParameters } :
            fs \in UNION { PkgFileSeqs(n) : n \in 1..MaxFiles } }


\* Requests about services: file a/x.proto of package p or Q declares messages A
\* (one field) and B (none) and up to two services; an optional second file
\* a/y.proto of the same package; the manifest absent, unreadable, empty or holding
\* earlier entries.
TypeIn(pkg, name) == << "." >> \o pkg \o << "." >> \o name
sN == << "N" >>
sM == << "m" >>
tagAB == kMiddleware \o << ":", "a", ",", "b" >>

PostMethod(pkg) == Method(sM, TypeIn(pkg, sA), TypeIn(pkg, sB), TRUE, "post", NoStr, NoStr)
PutMethod(pkg) == Method(sM, TypeIn(pkg, sA), TypeIn(pkg, sB), TRUE, "put", NoStr, NoStr)

\* Methods by HTTP mapping: no option, GET, POST, another pattern.
SvcMethods(pkg) ==
    { Method(sM, TypeIn(pkg, sA), TypeIn(pkg, sB), FALSE, "none", NoStr, NoStr),
      Method(sM, TypeIn(pkg, sA), TypeIn(pkg, sB), TRUE, "get", NoStr, NoStr),
      PostMethod(pkg), PutMethod(pkg) }

\* A method with a middleware directive, and one whose input type no file declares.
OddMethods(pkg) ==
    { Method(sM, TypeIn(pkg, sA), TypeIn(pkg, sB), TRUE, "post", NoStr, tagAB),
      Method(sM, TypeIn(pkg, sN), TypeIn(pkg, sB), TRUE, "post", NoStr, NoStr) }

svcS == << "s" >>
svcUpperS == << "S" >>
svcTU == << "t", "_", "u" >>

PairedServiceLists(pkg) ==
    { << Service(svcS, << PostMethod(pkg) >>), Service(n, << m >>) >> :
        n \in { svcUpperS, svcTU },
        m \in { PostMethod(pkg), PutMethod(pkg),
                Method(sM, TypeIn(pkg, sA), TypeIn(pkg, sB), FALSE, "none", NoStr, NoStr) } }

ServiceLists(pkg) ==
    { << >> }
    \cup { << Service(svcS, ms) >> : ms \in SeqsBetween(SvcMethods(pkg), 0, MaxMethods) }
    \cup { << Service(svcS, << m >>) >> : m \in OddMethods(pkg) }
    \cup PairedServiceLists(pkg)

FewServiceLists(pkg) ==
    { << >>, << Service(svcS, << PostMethod(pkg) >>) >>, << Service(svcS, << PutMethod(pkg) >>) >>,
      << Service(svcS, << PostMethod(pkg) >>), Service(svcUpperS, << PostMethod(pkg) >>) >> }

SvcMessages ==
    << Message(sA, << >>, << >>, << Field(<< "s" >>, "string", NoStr) >>, FALSE),
       Message(sB, << >>, << >>, << >>, FALSE) >>

\* A message with a field whose type no file declares.
DanglingMessage(pkg) ==
    << Message(<< "C" >>, << >>, << >>, << Field(<< "c" >>, "message", TypeIn(pkg, sN)) >>, FALSE) >>

SvcFirstFile(pkg, svcs) == File(fileX, pkg, NoStr, SvcMessages, << >>, svcs)

SvcSecondFiles(pkg) ==
    { File(fileY, pkg, NoStr, << >>, << >>, << >>),
      File(fileY, pkg, NoStr, << >>, << >>, << Service(svcS, << PostMethod(pkg) >>) >>),
      File(fileY, pkg, NoStr, DanglingMessage(pkg), << >>, << >>) }

oldKey == << "p", "/", "S" >>
oldValue == << "o" >>
otherKey == << "k" >>
ManifestOld == ManifestObject(MapPut(MapPut(EmptyMap, oldKey, oldValue), otherKey, oldValue))
Manifests == { ManifestAbsent, ManifestInvalid, ManifestObject(EmptyMap), ManifestOld }

parPath == Token(kPath, << "o" >>)

SvcRequests ==
    { Request(<< SvcFirstFile(pkgP, svcs) >>, << fileX >>, parPath, mf, NoStr) :
        svcs \in ServiceLists(pkgP), mf \in Manifests }
    \cup { Request(<< SvcFirstFile(pkgP, svcs), f2 >>, sel, parPath, mf, NoStr) :
             svcs \in FewServiceLists(pkgP), f2 \in SvcSecondFiles(pkgP),
             sel \in { << fileX >>, << fileY >>, << fileX, fileY >> },
             mf \in { ManifestAbsent, ManifestObject(EmptyMap), ManifestOld } }
    \cup { Request(<< SvcFirstFile(pkg, << Service(svcS, << PostMethod(pkg) >>) >>) >>,
                   << fileX >>, parPath, ManifestObject(EmptyMap), gec) :
             pkg \in { pkgQ, NoStr }, gec \in { NoStr, s400 } }

\* Requests about binding: a/x.proto declares A (one field), B (no field) and a
\* service of one GET or POST method; a/y.proto declares C (no field) and D (one
\* field); a/empty.proto declares Empty.  The method's input is one of the five and
\* its directive sets binding, bindcheck, both or nothing.  In the last requests
\* a/y.proto is generated too and declares the service.
sC == << "C" >>
sD == << "D" >>
sEmpty == << "E", "m", "p", "t", "y" >>
fileEmpty == << "a", "/", "e", "m", "p", "t", "y" >> \o DotProto
sTrue == << "t", "r", "u", "e" >>
Directive(k, v) == k \o << ":" >> \o v
BindingValues ==
    { sForm, << "F", "o", "r", "m" >>, sQuery, sFormPost, sFormMultipart,
      << "F", "o", "r", "m", "P", "o", "s", "t" >>, << "x", "m", "l" >> }
BindcheckValues == { sFalse, << "F", "a", "l", "s", "e" >>, sTrue }
BindTags ==
    { NoStr }
    \cup { Directive(kBinding, v) : v \in BindingValues }
    \cup { Directive(kBindcheck, v) : v \in BindcheckValues }
    \cup { Directive(kBinding, sForm) \o << " " >> \o Directive(kBindcheck, sFalse) }
BindInputs == { sA, sB, sC, sD, sEmpty }
BindMethod(pattern, input, responseBody, tag) ==
    Method(sM, TypeIn(pkgP, input), TypeIn(pkgP, sB), TRUE, pattern, responseBody, tag)
BindSecondMessages ==
    << Message(sC, << >>, << >>, << >>, FALSE),
       Message(sD, << >>, << >>, << Field(<< "s" >>, "string", NoStr) >>, FALSE) >>
BindFiles(svcsX, svcsY) ==
    << SvcFirstFile(pkgP, svcsX),
       File(fileY, pkgP, NoStr, BindSecondMessages, << >>, svcsY),
       File(fileEmpty, pkgP, NoStr, << Message(sEmpty, << >>, << >>, << >>, FALSE) >>, << >>, << >>) >>

BindRequests ==
    { Request(BindFiles(<< Service(svcS, << BindMethod(pat, in, NoStr, tag) >>) >>, << >>),
              << fileX >>, parPath, ManifestObject(EmptyMap), NoStr) :
        pat \in { "get", "post" }, in \in BindInputs, tag \in BindTags }
    \cup { Request(BindFiles(<< >>, << Service(svcS, << BindMethod("post", in, NoStr, NoStr) >>) >>),
                   << fileX, fileY >>, parPath, ManifestObject(EmptyMap), NoStr) :
             in \in { sA, sC, sD } }

\* Requests whose generated code the routing layer runs: one service of one or two
\* routes, with the middleware lists none, a, a then b, and the empty name.
tagA == kMiddleware \o << ":", "a" >>
tagEmptyName == kMiddleware \o << ":" >>
tagBA == kMiddleware \o << ":", "b", ",", "a" >>
RouterTags == { NoStr, tagA, tagAB, tagBA, tagEmptyName }
TaggedMethod(pattern, tag) ==
    Method(sM, TypeIn(pkgP, sA), TypeIn(pkgP, sB), TRUE, pattern, NoStr, tag)
RouterMethodLists ==
    { << TaggedMethod("post", t) >> : t \in RouterTags }
    \cup { << TaggedMethod("get", tagAB), TaggedMethod("post", tagA) >> }

\* And with the bindcheck directive, a response body of json or raw, and an input
\* without a field.
sRaw == << "r", "a", "w" >>
ClosureMethods ==
    { BindMethod("post", sA, NoStr, Directive(kBindcheck, v)) : v \in { sFalse, << "F", "a", "l", "s", "e" >> } }
    \cup { BindMethod("get", sA, NoStr, Directive(kBinding, sForm) \o << " " >> \o Directive(kBindcheck, sFalse)),
           BindMethod("post", sA, sJson, NoStr),
           BindMethod("post", sA, sRaw, NoStr),
           BindMethod("post", sA, sRaw, Directive(kBindcheck, sFalse)),
           BindMethod("post", sB, NoStr, NoStr) }

RouterRequests ==
    { Request(<< SvcFirstFile(pkgP, << Service(svcS, ms) >>) >>, << fileX >>, parPath,
              ManifestObject(EmptyMap), gec) :
        ms \in RouterMethodLists, gec \in { NoStr, s400 } }
    \cup { Request(<< SvcFirstFile(pkgP, << Service(svcS, << m >>) >>) >>, << fileX >>,
                   parPath, ManifestObject(EmptyMap), gec) :
             m \in ClosureMethods, gec \in { NoStr, s400 } }

\* Requests about dependencies: a/x.proto (package p, selected) depends on
\* a/y.proto (package p) and b/z.proto (package Q), publicly on none, one or both,
\* weakly on b/z.proto or on none.  a/y.proto declares A { B { enum B } }, or C with
\* a map field and its entry message, a top-level enum E and an extension;
\* b/z.proto declares Z, the enum W and an extension.
sE == << "E" >>
sW == << "W" >>
sX == << "X" >>
sZ == << "Z" >>
sEntry == << "M", "E", "n", "t", "r", "y" >>
MapEntryOf(valueType, valueTypeName) ==
    Message(sEntry, << >>, << >>,
            << Field(<< "k", "e", "y" >>, "string", NoStr),
               Field(<< "v", "a", "l", "u", "e" >>, valueType, valueTypeName) >>, TRUE)
DepShapes ==
    { File(fileY, pkgP, NoStr, << ChainProto(1, 2, 2) >>, << >>, << >>),
      [ File(fileY, pkgP, NoStr,
             << Message(sC, << MapEntryOf("string", NoStr) >>, << >>,
                        << Field(<< "m" >>, "message", TypeIn(pkgP, sC \o << "." >> \o sEntry)) >>,
                        FALSE) >>,
             << sE >>, << >>)
        EXCEPT !.extension = << << "x" >> >> ] }
DepThird ==
    [ File(fileZ, pkgQ, NoStr, << Message(sZ, << >>, << >>, << >>, FALSE) >>, << sW >>, << >>)
      EXCEPT !.extension = << << "z" >> >> ]
DepFirst(public, weakDeps) ==
    WithDependencies(File(fileX, pkgP, NoStr, << Message(sX, << >>, << >>, << >>, FALSE) >>,
                          << >>, << >>),
                     << fileY, fileZ >>, public, weakDeps)
DepRequests ==
    { Request(<< DepFirst(public, weakDeps), y, DepThird >>, << fileX >>, NoStr,
              ManifestObject(EmptyMap), NoStr) :
        public \in { << >>, << 0 >>, << 1 >>, << 0, 1 >>, << 1, 0 >> },
        weakDeps \in { << >>, << 1 >> }, y \in DepShapes }

\* Requests whose messages have fields.  FieldWith sets what Field leaves unset.
FieldWith(field, jsonName, repeated, tag) ==
    [ field EXCEPT !.jsonName = jsonName, !.repeated = repeated, !.tag = tag ]

\* One message whose fields have names that collide once CamelCased, with each
\* other's getters, with a name already altered, or with a method name.
AllocFieldNames == { << "a" >>, << "A" >>, << "a", "_" >>, << "g", "e", "t", "_", "a" >>, << "r", "e", "s", "e", "t" >> }
AllocFieldLists ==
    UNION { { names \in [ 1..k -> AllocFieldNames ] :
                \A i \in 1..k : \A j \in 1..k : i # j => names[i] # names[j] } :
            k \in 1..3 }
OneMessageRequest(fields) ==
    Request(<< File(fileX, pkgP, NoStr, << Message(sA, << >>, << >>, fields, FALSE) >>,
                    << >>, << >>) >>,
            << fileX >>, NoStr, ManifestObject(EmptyMap), NoStr)
AllocRequests ==
    { OneMessageRequest([ i \in DOMAIN names |-> Field(names[i], "string", NoStr) ]) :
        names \in AllocFieldLists }

\* One field with and without a JSON name, under the @tag lines a leading comment
\* may carry.
FieldTags ==
    { NoStr, kOmitempty, kOmitempty \o << ":", "t", "r", "u", "e" >>, kOmitempty \o << ":", "T", "R", "U", "E" >>,
      kOmitempty \o << ":", "f", "a", "l", "s", "e" >>, << "x", " " >> \o kOmitempty \o << ":", "0" >>,
      << "o", "m", "i", "t", "e", "m", "p", "t", "y", "x", ":", "f", "a", "l", "s", "e" >> }
TagRequests ==
    { OneMessageRequest(<< FieldWith(Field(<< "f", "_", "g" >>, "int32", NoStr), jsonName, FALSE, tag) >>) :
        jsonName \in { NoStr, << "f", "G" >> }, tag \in FieldTags }

\* Three files: a/x.proto depends on a/y.proto (both of package p) and on b/z.proto
\* (package r), a/y.proto depends on b/z.proto.  Message C of a/y.proto has a map
\* field, a field of its own type and one of the file's enum; message X of a/x.proto
\* refers to the types the request chooses.
pkgR == << "r" >>
RefThird == File(fileZ, pkgR, NoStr, << Message(sZ, << >>, << >>, << >>, FALSE) >>, << sW >>, << >>)
RefMapValues ==
    { Field(<< "v", "a", "l", "u", "e" >>, "string", NoStr),
      Field(<< "v", "a", "l", "u", "e" >>, "message", TypeIn(pkgP, sC)),
      Field(<< "v", "a", "l", "u", "e" >>, "enum", TypeIn(pkgP, sE)),
      Field(<< "v", "a", "l", "u", "e" >>, "message", TypeIn(pkgR, sZ)) }
RefSecond(value, syntax, services) ==
    [ WithDependencies(
        File(fileY, pkgP, NoStr,
             << Message(sC,
                        << Message(sEntry, << >>, << >>,
                                   << Field(<< "k", "e", "y" >>, "string", NoStr), value >>, TRUE) >>,
                        << >>,
                        << FieldWith(Field(<< "m" >>, "message", TypeIn(pkgP, sC \o << "." >> \o sEntry)),
                                     NoStr, TRUE, NoStr),
                           Field(<< "c" >>, "message", TypeIn(pkgP, sC)),
                           Field(<< "e" >>, "enum", TypeIn(pkgP, sE)) >>,
                        FALSE) >>,
             << sE >>, services),
        << fileZ >>, << >>, << >>)
      EXCEPT !.syntax = syntax ]
RefSeconds ==
    { RefSecond(value, syntax, << >>) : value \in RefMapValues, syntax \in { "proto2", "proto3" } }
    \cup { RefSecond(Field(<< "v", "a", "l", "u", "e" >>, "string", NoStr), "proto3",
                     << Service(<< "s" >>, << Method(sM, TypeIn(pkgP, sC), TypeIn(pkgP, sC), TRUE,
                                                "post", NoStr, NoStr) >>) >>) }
RefFieldLists ==
    LET y == Field(<< "y" >>, "message", TypeIn(pkgP, sC))
        z == Field(<< "z" >>, "enum", TypeIn(pkgR, sW))
        own == Field(<< "x" >>, "message", TypeIn(pkgP, sX))
    IN  { << >>, << y >>, << z >>, << y, z >>, << own >>,
          << FieldWith(y, NoStr, TRUE, NoStr), Field(<< "n" >>, "bytes", NoStr) >> }
RefFirst(fields, public, weakDeps) ==
    WithDependencies(File(fileX, pkgP, NoStr, << Message(sX, << >>, << >>, fields, FALSE) >>,
                          << >>, << >>),
                     << fileY, fileZ >>, public, weakDeps)
RefRequests ==
    { Request(<< RefFirst(fields, deps[1], deps[2]), y, RefThird >>, toGenerate, NoStr,
              ManifestObject(EmptyMap), NoStr) :
        fields \in RefFieldLists,
        deps \in { << << >>, << >> >>, << << >>, << 1 >> >>, << << 0 >>, << >> >> },
        y \in RefSeconds,
        toGenerate \in { << fileX >>, << fileX, fileY >>, << fileY, fileX >> } }

\* Files whose names derive the same package name (a/x, b/x), a name that is another
\* one's first alternative (x1), and a predeclared identifier (string) with its first
\* alternative (string1).
sString == << "s", "t", "r", "i", "n", "g" >>
NameFiles ==
    << << "a", "/", "x" >> \o DotProto, << "b", "/", "x" >> \o DotProto,
       << "x", "1" >> \o DotProto, sString \o DotProto,
       << "c", "/" >> \o sString \o << "1" >> \o DotProto >>
NameRequests ==
    { Request([ i \in DOMAIN NameFiles |-> File(NameFiles[i], pkgP, NoStr, << >>, << >>, << >>) ],
              << fileX >>, NoStr, ManifestAbsent, NoStr) }

\* A request that cannot be decoded, and one that selects no file.
BadRequests ==
    { [ Request(<< >>, << >>, NoStr, ManifestAbsent, NoStr) EXCEPT !.parsable = FALSE ],
      Request(<< File(fileX, pkgP, NoStr, << >>, << >>, << >>) >>, << >>, NoStr,
              ManifestAbsent, NoStr) }

Requests ==
    TypeRequests \cup PkgRequests \cup SvcRequests \cup BindRequests \cup DepRequests
    \cup AllocRequests \cup TagRequests \cup RefRequests \cup BadRequests

(* --------------------------- the specification ------------------------ *)

\* Nothing has run yet.
GeneratorIdle ==
    /\ exitCode = -1
    /\ failedAt = ""
    /\ Param = EmptyMap
    /\ PackageImportPath = NoStr
    /\ ImportPrefix = NoStr
    /\ ImportMap = EmptyMap
    /\ allFiles = << >>
    /\ allFilesByName = EmptyMap
    /\ genFiles = << >>
    /\ outputImportPath = NoStr
    /\ typeNameToObject = EmptyMap
    /\ fileIdx = 0
    /\ svcIdx = 0
    /\ Response = << >>
    /\ manifest = req.manifest
    /\ stdout = << >>

ImportsIdle ==
    /\ packageNames = EmptyMap
    /\ usedPackageNames = { }
    /\ usedPackages = { }
    /\ addedImports = { }
    /\ lastCall = NoCall

RouterIdle ==
    /\ mIns = EmptyMap
    /\ engine = << >>
    /\ registered = 0
    /\ served = [ route |-> 0, invoked |-> << >>, bindFailed |-> FALSE,
                  userHandler |-> FALSE, handlerFailed |-> FALSE, envelopes |-> << >>,
                  mInsNow |-> { } ]

\* One run of the generator.
Init ==
    /\ req \in Requests
    /\ pc = "main"
    /\ buffer = << >>
    /\ GeneratorIdle
    /\ ImportsIdle
    /\ RouterIdle

Next ==
    \/ ReadRequest
    \/ CommandLineParameters
    \/ WrapTypes
    \/ SetPackageNames
    \/ BuildTypeNameMap
    \/ GenerateModelFile
    \/ BeginApiFile
    \/ GenerateService
    \/ FinishApiFile
    \/ WriteResponse

Spec == Init /\ [][Next]_vars

\* The program that holds the routing layer and the code generated for the service
\* of file a/x.proto: the generator's state is the one in which generateService
\* emitted it, buffer is what it emitted.
RouterInit ==
    /\ req \in RouterRequests
    /\ pc = "router"
    /\ exitCode = -1
    /\ failedAt = ""
    /\ Param = ParseParam(req.parameter)
    /\ PackageImportPath = NoStr
    /\ ImportPrefix = << "/" >>
    /\ ImportMap = EmptyMap
    /\ genFiles = << 1 >>
    /\ allFiles = namedFiles([ i \in DOMAIN req.protoFile |->
                                 wrapFile(req.protoFile[i], req.fileToGenerate, ImportMap,
                                          PackageImportPath) ],
                             genFiles, PackageImportPath)
    /\ allFilesByName = filesByName(allFiles)
    /\ outputImportPath = allFiles[1].name
    /\ typeNameToObject = buildTypeNameMap(allFiles)
    /\ fileIdx = 1
    /\ svcIdx = 1
    /\ ImportsIdle
    /\ buffer = serviceLines(req.protoFile[1].service[1], req.genErrorCode)
    /\ Response = << >>
    /\ manifest = req.manifest
    /\ stdout = << >>
    /\ RouterIdle

RouterNext ==
    \/ RegisterMiddleware
    \/ RegisterHandler
    \/ ServeRequest

SpecRouter == RouterInit /\ [][RouterNext]_vars

\* The name tables of one generator under any sequence of calls and passes.
NamesInit ==
    /\ req \in NameRequests
    /\ pc = "names"
    /\ buffer = << >>
    /\ GeneratorIdle
    /\ ImportsIdle
    /\ RouterIdle

NamesNext ==
    \/ BeginPass
    \/ CallGoPackageName
    \/ CallAddImport

SpecNames == NamesInit /\ [][NamesNext]_vars

(* ------------------------------ the claims ---------------------------- *)

\* BuildTypeNameMap has run and the run goes on.
IndexBuilt ==
    pc \in { "GenerateModelFile", "BeginApiFile", "GenerateService", "FinishApiFile",
             "WriteResponse", "done" }

\* C1: once BuildTypeNameMap has run, the key of every message and enum of every
\* wrapped file is in the index, and ObjectNamed on that key returns the very
\* descriptor built for that declaration.
C1_IndexReturnsEachDeclaration ==
    IndexBuilt =>
        \A i \in DOMAIN insertionsFrom(allFiles, 1) :
            LET o == insertionsFrom(allFiles, 1)[i]
            IN  /\ Found(objKey(allFiles, o))
                /\ ObjectNamed(objKey(allFiles, o)) = o

\* C2: a run in which two declarations have the same fully-qualified name does not
\* get past BuildTypeNameMap.
C2_DuplicateNamesAbort ==
    IndexBuilt =>
        \A i, j \in DOMAIN insertionsFrom(allFiles, 1) :
            i # j => objKey(allFiles, insertionsFrom(allFiles, 1)[i])
                     # objKey(allFiles, insertionsFrom(allFiles, 1)[j])

\* Two files to generate differ in import path or in package name.
SelectedFilesDisagree ==
    \E i, j \in DOMAIN genFiles :
        \/ allFiles[genFiles[i]].importPath # allFiles[genFiles[j]].importPath
        \/ allFiles[genFiles[i]].packageName # allFiles[genFiles[j]].packageName

\* C3: once SetPackageNames has run, files to generate that disagree on import path
\* or package name mean the run has ended there with exit status 1: no pass has
\* started, the response is empty, the manifest is as it was and nothing is on
\* standard output.
C3_DisagreementAbortsInSetPackageNames ==
    (pc # "SetPackageNames" /\ SelectedFilesDisagree) =>
        /\ pc = "exited"
        /\ exitCode = 1
        /\ failedAt \in { "inconsistent package import paths", "inconsistent package names" }
        /\ typeNameToObject = EmptyMap
        /\ fileIdx = 0
        /\ buffer = << >>
        /\ Response = << >>
        /\ manifest = req.manifest
        /\ stdout = << >>

\* Two files to generate
\* that agree on the import path and differ in package name: the run has ended.
C3_Witness ==
    /\ pc = "exited"
    /\ SelectedFilesDisagree
    /\ failedAt = "inconsistent package names"
    /\ Len(genFiles) = 2

\* The entries of a completed response: for each wrapped file to generate, in the
\* order of the request, the name of its model file then the name of its API file.
RECURSIVE ExpectedNamesFrom(_)
ExpectedNamesFrom(f) ==
    IF f > Len(allFiles) THEN << >>
    ELSE (IF f \in Range(genFiles)
          THEN << goFileName(allFiles[f], tModel), goFileName(allFiles[f], tApi) >>
          ELSE << >>)
         \o ExpectedNamesFrom(f + 1)

\* C4: the response of a completed run holds, for every file to generate, its model
\* file immediately followed by its API file, and nothing else; it is what standard
\* output received.
C4_TwoEntriesPerSelectedFile ==
    pc = "done" =>
        /\ [ i \in DOMAIN Response |-> Response[i].name ] = ExpectedNamesFrom(1)
        /\ \A i \in DOMAIN Response :
              /\ Response[i].typ = (IF i % 2 = 1 THEN "model" ELSE "api")
              /\ Response[i].file \in Range(genFiles)
              /\ i % 2 = 0 => Response[i].file = Response[i - 1].file
        /\ Len(Response) = 2 * Cardinality(Range(genFiles))
        /\ stdout = Response

\* A completed run over two files, the second alone to generate and without a
\* service.
C4_Witness ==
    /\ pc = "done"
    /\ Len(allFiles) = 2
    /\ genFiles = << 2 >>
    /\ req.protoFile[2].service = << >>
    /\ Len(stdout) = 2

\* The diagnostics of the steps before the response is written.
FatalBeforeWrite ==
    { "parsing input proto", "no files to generate", "Unknown path type",
      "internal error: nesting failure", "could not find file named",
      "inconsistent package import paths", "inconsistent package names",
      "can't find object with type", "option google.api.http not found",
      "handler.json file not found", "handler.json file content error",
      "bad Go source code was generated" }

\* C5: a run that a fatal condition of parameter parsing, wrapping, package naming,
\* lookup, either pass, formatting or manifest access has ended has exit status 1 and
\* has written nothing to standard output.
C5_FatalExitsNonZeroWithoutResponse ==
    /\ failedAt \in FatalBeforeWrite => (pc = "exited" /\ exitCode = 1 /\ stdout = << >>)
    /\ (pc = "exited" /\ failedAt \in FatalBeforeWrite \cup { "failed to write output proto" })
       \/ (pc # "exited" /\ failedAt = "")
    /\ pc = "exited" => exitCode = 1

\* A run ended by the formatter after the model file of the same schema file had
\* been appended to the response.
C5_Witness ==
    /\ failedAt = "bad Go source code was generated"
    /\ Len(Response) = 1
    /\ exitCode = 1

\* The services of the file at fileIdx that generateService has finished.
GeneratedServices ==
    IF pc \in { "GenerateService", "FinishApiFile" }
    THEN { req.protoFile[fileIdx].service[i] : i \in 1..(svcIdx - 1) }
    ELSE { }

\* C6: no service with a method whose google.api.http option is absent or carries a
\* pattern other than GET and POST gets through generateService, and no closure
\* body is in the buffer without the line that opens its route.
C6_UnmappedMethodAborts ==
    /\ \A service \in GeneratedServices :
          \A i \in DOMAIN service.method :
              service.method[i].hasHttp /\ service.method[i].pattern \in { "get", "post" }
    /\ \A i \in DOMAIN buffer :
          buffer[i].line = "body" => (i > 1 /\ buffer[i - 1].line = "open")

\* C7 as stated: no run ends because the manifest file is absent.
C7_AbsentManifestIsCreated ==
    failedAt # "handler.json file not found"

\* C7, amended: while the manifest file is absent no service gets through
\* generateService and the file is not created; a run completes only when no file
\* to generate declares a service.
C7_AbsentManifestAborts ==
    req.manifest.state = "absent" =>
        /\ manifest = req.manifest
        /\ GeneratedServices = { }
        /\ pc = "done" => \A i \in DOMAIN genFiles : req.protoFile[genFiles[i]].service = << >>

\* A run ended by generateHandler on an absent manifest, after the model file had
\* been appended to the response.
C7_Witness ==
    /\ req.manifest.state = "absent"
    /\ failedAt = "handler.json file not found"
    /\ manifest.state = "absent"
    /\ Len(Response) = 1

FirstMissing(r) ==
    LET names == engine[r].middlewares
        missing == { i \in DOMAIN names : names[i] \notin DOMAIN engine[r].mInsThen }
    IN  IF missing = { } THEN 0 ELSE CHOOSE i \in missing : \A j \in missing : i <= j

\* C9: a request to a route registered with a name that was not in the registry
\* runs neither a middleware nor the user's handler, and is answered with the
\* configured error code and a message naming the first such name.
C9_UnregisteredAnswersConfiguredCode ==
    (served.route # 0 /\ FirstMissing(served.route) # 0) =>
        /\ ~served.userHandler
        /\ \A i \in DOMAIN served.invoked : served.invoked[i].kind \notin { "middleware", "closure" }
        /\ served.envelopes =
              << ErrorEnvelope(gecOf(req.genErrorCode),
                               kMiddleware \o << ":", " " >>
                               \o engine[served.route].middlewares[FirstMissing(served.route)]
                               \o sNotFound) >>

\* C10 as stated: a request that arrives when every name of the route's list is
\* registered is not answered by the not-found handler.
C10_ResolvedAtRequestTime ==
    (/\ served.route # 0
     /\ \A i \in DOMAIN engine[served.route].middlewares :
           engine[served.route].middlewares[i] \in served.mInsNow) =>
        \A i \in DOMAIN served.invoked : served.invoked[i].kind # "notFound"

\* C10, amended: the names are resolved when the route is registered.  A route
\* registered while the first name mIns lacks is a non-empty one has the not-found
\* handler for that name as its only handler, and every request to it is answered by
\* that handler whatever is registered by then; a route registered when mIns holds
\* every name has the handlers mIns held at that time, then the closure.
C10_ResolvedAtRegistration ==
    /\ \A r \in DOMAIN engine :
          LET names == engine[r].middlewares
              k == FirstMissing(r)
          IN  /\ (k # 0 /\ names[k] # NoStr) =>
                    engine[r].route.handlers = << NotFoundHandler(names[k]) >>
              /\ (k = 0 /\ Len(names) > 0) =>
                    /\ Len(engine[r].route.handlers) = Len(names) + 1
                    /\ \A i \in DOMAIN names :
                          engine[r].route.handlers[i] = engine[r].mInsThen[names[i]]
                    /\ engine[r].route.handlers[Len(names) + 1].kind = "closure"
    /\ (/\ served.route # 0
        /\ FirstMissing(served.route) # 0
        /\ engine[served.route].middlewares[FirstMissing(served.route)] # NoStr) =>
          /\ served.invoked =
                << NotFoundHandler(engine[served.route].middlewares[FirstMissing(served.route)]) >>
          /\ ~served.userHandler

\* A request answered by the not-found handler although every name of the route's
\* list had been registered by the time it arrived.
C10_Witness ==
    /\ served.route # 0
    /\ Len(engine[served.route].middlewares) = 2
    /\ \A i \in DOMAIN engine[served.route].middlewares :
          engine[served.route].middlewares[i] \in served.mInsNow
    /\ served.invoked[1].kind = "notFound"
    /\ served.envelopes[1].code = s500

\* The names of the middleware directive of the router requests, in the directive's
\* order.
DirectiveNames(tag) ==
    IF tag = tagA THEN << << "a" >> >>
    ELSE IF tag = tagAB THEN << << "a" >>, << "b" >> >>
    ELSE IF tag = tagBA THEN << << "b" >>, << "a" >> >>
    ELSE IF tag = tagEmptyName THEN << NoStr >>
    ELSE << >>

\* C11: the route of a method whose directive names were all registered when the
\* route was registered has the handlers registered under those names, in the
\* directive's order, then the closure that calls the method of the user's handler;
\* the route of a method without the directive has that closure alone.
C11_ChainInDirectiveOrder ==
    \A r \in DOMAIN engine :
        LET method == req.protoFile[1].service[1].method[r]
            names == DirectiveNames(method.tag)
            hs == engine[r].route.handlers
        IN  (\A i \in DOMAIN names : names[i] \in DOMAIN engine[r].mInsThen) =>
                /\ Len(hs) = Len(names) + 1
                /\ \A i \in DOMAIN names : hs[i] = engine[r].mInsThen[names[i]]
                /\ hs[Len(hs)].kind = "closure"
                /\ hs[Len(hs)].method = CamelCase(method.name)

\* A request has gone through the chain of the directive middleware:b,a, the two
\* names registered with different handlers, and has reached the user's handler.
C11_Witness ==
    /\ served.route # 0
    /\ req.protoFile[1].service[1].method[served.route].tag = tagBA
    /\ Len(served.invoked) = 3
    /\ served.invoked[1] = [ kind |-> "middleware", handler |-> "h2" ]
    /\ served.invoked[2] = [ kind |-> "middleware", handler |-> "h1" ]
    /\ engine[served.route].mInsThen[<< "b" >>].handler = "h2"
    /\ served.userHandler

\* The methods of the services generateService has finished for the file at
\* fileIdx, and the closure bodies in the buffer, both in order: the k-th body is the
\* k-th method's.
RECURSIVE MethodsFrom(_)
MethodsFrom(sv) ==
    IF pc \notin { "GenerateService", "FinishApiFile" } \/ sv >= svcIdx THEN << >>
    ELSE req.protoFile[fileIdx].service[sv].method \o MethodsFrom(sv + 1)
RECURSIVE BodiesFrom(_)
BodiesFrom(i) ==
    IF pc \notin { "GenerateService", "FinishApiFile" } \/ i > Len(buffer) THEN << >>
    ELSE (IF buffer[i].line = "body" THEN << buffer[i] >> ELSE << >>) \o BodiesFrom(i + 1)

\* The message a method takes as input, in whichever wrapped file declares it.
InputMessage(method) ==
    LET o == ObjectNamed(method.inputType)
    IN  allFiles[o.file].desc[o.idx]

\* C12: the closure of a method has no bind call exactly when the method's input is
\* the empty-input marker type or a message that declares no field, whichever
\* wrapped file declares it.
C12_BindSkippedIffNoField ==
    \A k \in DOMAIN BodiesFrom(1) :
        LET method == MethodsFrom(1)[k]
        IN  (BodiesFrom(1)[k].bind.call = "none")
            <=> \/ BodiesFrom(1)[k].inType = sRouterEmpty
                \/ Len(InputMessage(method).Field) = 0

\* C13: the closure of a GET method that needs binding binds from the query string,
\* whatever the binding and bindcheck directives of the method say.
C13_GetBindsQuery ==
    \A k \in DOMAIN BodiesFrom(1) :
        (MethodsFrom(1)[k].pattern = "get" /\ BodiesFrom(1)[k].bind.call # "none")
            => /\ BodiesFrom(1)[k].bind.call = "ShouldBindQuery"
               /\ BodiesFrom(1)[k].bind.type = ""

\* A GET method with a binding directive asking for a form got the query-string bind.
C13_Witness ==
    \E k \in DOMAIN BodiesFrom(1) :
        /\ MethodsFrom(1)[k].pattern = "get"
        /\ kBinding \in DOMAIN customAnnotationsOf(MethodsFrom(1)[k].tag)
        /\ customAnnotationsOf(MethodsFrom(1)[k].tag)[kBinding] = sForm
        /\ BodiesFrom(1)[k].bind.call = "ShouldBindQuery"

\* The binding type the directive of a method selects, by the lower-cased value.
DirectedType(method) ==
    LET b == ToLower(bindingOf(customAnnotationsOf(method.tag)))
    IN  IF b = sForm THEN "Form"
        ELSE IF b = sQuery THEN "Query"
        ELSE IF b = sFormPost THEN "FormPost"
        ELSE IF b = sFormMultipart THEN "FormMultipart"
        ELSE "JSON"

\* C14: the closure of a POST method that needs binding binds with the strategy its
\* binding directive names, compared without regard to case: form, query, formpost
\* and formmultipart select those, an absent or other value the JSON body bind.
C14_PostBindsAsDirected ==
    \A k \in DOMAIN BodiesFrom(1) :
        (MethodsFrom(1)[k].pattern = "post" /\ BodiesFrom(1)[k].bind.call # "none")
            => /\ BodiesFrom(1)[k].bind.type = DirectedType(MethodsFrom(1)[k])
               /\ BodiesFrom(1)[k].bind.call =
                      IF DirectedType(MethodsFrom(1)[k]) = "JSON" THEN "ShouldBindBodyWith"
                      ELSE "ShouldBindWith"

\* A POST method whose directive is written with capitals got the form-post bind.
C14_Witness ==
    \E k \in DOMAIN BodiesFrom(1) :
        /\ MethodsFrom(1)[k].pattern = "post"
        /\ kBinding \in DOMAIN customAnnotationsOf(MethodsFrom(1)[k].tag)
        /\ customAnnotationsOf(MethodsFrom(1)[k].tag)[kBinding] # sFormPost
        /\ BodiesFrom(1)[k].bind.call = "ShouldBindWith"
        /\ BodiesFrom(1)[k].bind.type = "FormPost"

\* The method of the route that served the last request, whether that request got
\* as far as the route's closure, and whether the method's bindcheck directive is
\* 'false' in some case.
ServedMethod == req.protoFile[1].service[1].method[served.route]
ReachedClosure ==
    /\ served.route # 0
    /\ served.invoked[Len(served.invoked)].kind = "closure"
BindcheckFalse(method) ==
    /\ kBindcheck \in DOMAIN customAnnotationsOf(method.tag)
    /\ ToLower(customAnnotationsOf(method.tag)[kBindcheck]) = sFalse
ConfiguredCode == IF req.genErrorCode = NoStr THEN s500 ELSE req.genErrorCode

\* C15: when the closure's bind fails and the method's bindcheck is active, the
\* request gets one error envelope with the configured code and nothing else: the
\* user's handler is not called and no success envelope is written.
C15_BindFailureEndsRequest ==
    (ReachedClosure /\ served.bindFailed /\ ~BindcheckFalse(ServedMethod)) =>
        /\ served.envelopes = << ErrorEnvelope(ConfiguredCode, sErr) >>
        /\ ~served.userHandler

\* A bind failed in a run configured with code 400 and was answered with it.
C15_Witness ==
    /\ ReachedClosure
    /\ served.bindFailed
    /\ ~BindcheckFalse(ServedMethod)
    /\ served.envelopes = << ErrorEnvelope(s400, sErr) >>
    /\ ~served.userHandler

\* C16: when the method's bindcheck directive is 'false' in any case, the user's
\* handler is called whether the bind failed or not, and a bind failure alone
\* leaves no error envelope.
C16_BindcheckFalseDiscardsResult ==
    (ReachedClosure /\ BindcheckFalse(ServedMethod)) =>
        /\ served.userHandler
        /\ (served.bindFailed /\ ~served.handlerFailed) =>
              \A i \in DOMAIN served.envelopes : served.envelopes[i] = SuccessEnvelope

\* The bind of a method with bindcheck:False failed, the handler ran and succeeded.
C16_Witness ==
    /\ ReachedClosure
    /\ kBindcheck \in DOMAIN customAnnotationsOf(ServedMethod.tag)
    /\ customAnnotationsOf(ServedMethod.tag)[kBindcheck] = << "F", "a", "l", "s", "e" >>
    /\ served.bindFailed
    /\ served.userHandler
    /\ served.envelopes = << SuccessEnvelope >>

\* C17: a request that reaches the user's handler of a method whose response body
\* is empty or 'json' gets exactly one envelope, the success envelope when the
\* handler returns no error and else the error envelope with the configured code;
\* that code is the external setting, 500 when unset, in every closure of the run.
C17_OneEnvelopePerRequest ==
    /\ \A r \in DOMAIN engine : \A i \in DOMAIN engine[r].route.handlers :
          engine[r].route.handlers[i].kind = "closure"
              => engine[r].route.handlers[i].gec = ConfiguredCode
    /\ (/\ ReachedClosure
        /\ ServedMethod.responseBody \in { NoStr, sJson }
        /\ served.userHandler) =>
          served.envelopes =
              << IF served.handlerFailed THEN ErrorEnvelope(ConfiguredCode, sErr)
                 ELSE SuccessEnvelope >>

\* The handler of a method with response body 'json' failed in a run configured
\* with code 400.
C17_Witness ==
    /\ ReachedClosure
    /\ ServedMethod.responseBody = sJson
    /\ served.handlerFailed
    /\ served.envelopes = << ErrorEnvelope(s400, sErr) >>

\* Whether the elements of children are distinct elements of seq whose parent is
\* the message d.
LinksChildrenOf(children, seq, d) ==
    /\ \A i \in DOMAIN children : children[i] \in DOMAIN seq /\ seq[children[i]].parent = d
    /\ \A i, j \in DOMAIN children : children[i] = children[j] => i = j

\* C18: once the files are wrapped, every message that declares nested messages is
\* linked to as many nested messages of its own as it declares, and every message
\* that declares enums to as many enums of its own; a run in which a count differs
\* has ended in WrapTypes with the failure status, before any pass began and with no
\* response entry and nothing written.
C18_LinkedChildrenMatchDeclared ==
    IF failedAt = "internal error: nesting failure"
    THEN pc = "exited" /\ exitCode = 1 /\ fileIdx = 0 /\ Response = << >> /\ stdout = << >>
    ELSE \A f \in DOMAIN allFiles : \A d \in DOMAIN allFiles[f].desc :
            LET m == allFiles[f].desc[d]
            IN  /\ m.NestedType # 0 =>
                      /\ Len(m.nested) = m.NestedType
                      /\ LinksChildrenOf(m.nested, allFiles[f].desc, d)
                /\ Len(m.EnumType) # 0 =>
                      /\ Len(m.enums) = Len(m.EnumType)
                      /\ LinksChildrenOf(m.enums, allFiles[f].enum, d)

\* WrapTypes has wrapped a message that declares a nested message and an enum and a
\* nested message that declares an enum.
C18_Witness ==
    /\ pc = "SetPackageNames"
    /\ \E f \in DOMAIN allFiles : \E d \in DOMAIN allFiles[f].desc :
          /\ allFiles[f].desc[d].NestedType = 1
          /\ Len(allFiles[f].desc[d].nested) = 1
          /\ Len(allFiles[f].desc[d].enums) = 1
    /\ \E f \in DOMAIN allFiles : \E d \in DOMAIN allFiles[f].desc :
          /\ allFiles[f].desc[d].parent # 0
          /\ Len(allFiles[f].desc[d].enums) = 1

\* The outermost message that contains the message d of a file, and the enums of a
\* file that are declared in a message which is itself nested: the message at
\* place d of the file's descriptor list declares the enums of desc[d].EnumType.
RECURSIVE OutermostMessage(_, _)
OutermostMessage(fd, d) ==
    IF fd.desc[d].parent = 0 THEN d ELSE OutermostMessage(fd, fd.desc[d].parent)
RECURSIVE EnumsBefore(_, _)
EnumsBefore(fd, d) ==
    IF d = 1 THEN 0 ELSE EnumsBefore(fd, d - 1) + Len(fd.desc[d - 1].EnumType)
TopLevelEnums(fd) == Len(fd.enum) - EnumsBefore(fd, Len(fd.desc) + 1)
DeclaredIn(fd, e) ==
    IF e <= TopLevelEnums(fd) THEN 0
    ELSE CHOOSE d \in DOMAIN fd.desc :
            /\ EnumsBefore(fd, d) < e - TopLevelEnums(fd)
            /\ e - TopLevelEnums(fd) <= EnumsBefore(fd, d) + Len(fd.desc[d].EnumType)
DeepEnums(fd) ==
    { e \in DOMAIN fd.enum : DeclaredIn(fd, e) # 0 /\ fd.desc[DeclaredIn(fd, e)].parent # 0 }

Selected(n) == \E i \in DOMAIN req.fileToGenerate : req.fileToGenerate[i] = n

\* C20: the import path of every wrapped file is the M override of its name when
\* the parameter has one; else the import_path parameter when the file is selected
\* and the parameter is not empty; else the import path of its go_package option
\* when the option implies one; else the directory of its name.  A file that is
\* not selected never owes its import path to import_path.
C20_ImportPathByFirstMatch ==
    \A i \in DOMAIN allFiles :
        LET f == req.protoFile[i]
            byOption == IF goPackageOption(f).impPath # NoStr THEN goPackageOption(f).impPath
                        ELSE PathDir(f.name)
        IN  /\ f.name \in DOMAIN ImportMap => allFiles[i].importPath = ImportMap[f.name]
            /\ (f.name \notin DOMAIN ImportMap /\ Selected(f.name) /\ PackageImportPath # NoStr)
                  => allFiles[i].importPath = PackageImportPath
            /\ (f.name \notin DOMAIN ImportMap /\ ~(Selected(f.name) /\ PackageImportPath # NoStr))
                  => allFiles[i].importPath = byOption
            /\ (f.name \notin DOMAIN ImportMap /\ ~Selected(f.name))
                  => allFiles[i].importPath = byOption

\* WrapTypes has run with import_path set: the selected file got it, the other file,
\* not selected, got the directory of its name.
C20_Witness ==
    /\ pc = "SetPackageNames"
    /\ PackageImportPath = gpGQ
    /\ Len(allFiles) = 2
    /\ Selected(allFiles[1].name) /\ allFiles[1].importPath = gpGQ
    /\ ~Selected(allFiles[2].name)
    /\ allFiles[2].name \notin DOMAIN ImportMap
    /\ allFiles[2].importPath = << "a" >>

\* The selected files other than i that have a go_package option and the import
\* path of file i.
OptionSharers(i) ==
    { j \in Range(genFiles) : /\ j # i
                              /\ goPackageOption(req.protoFile[j]).ok
                              /\ allFiles[j].importPath = allFiles[i].importPath }

\* C21: once SetPackageNames has named the files, the package name of a selected
\* file is that of its own go_package option; else that of the option of another
\* selected file with the same import path; else the cleaned last element of the
\* import_path parameter; else its cleaned proto package; else its cleaned base
\* name.
C21_PackageNameByFirstMatch ==
    outputImportPath # NoStr =>
        \A i \in Range(genFiles) :
            LET f == req.protoFile[i]
                name == allFiles[i].packageName
                fromParam == cleanPackageName(After(PackageImportPath,
                                                   LastIndexOf(PackageImportPath, "/")))
            IN  IF goPackageOption(f).ok THEN name = goPackageOption(f).pkg
                ELSE IF OptionSharers(i) # { }
                     THEN \E j \in OptionSharers(i) : name = goPackageOption(req.protoFile[j]).pkg
                ELSE IF fromParam # NoStr THEN name = fromParam
                ELSE IF f.package # NoStr THEN name = cleanPackageName(f.package)
                ELSE name = cleanPackageName(baseName(f.name))

\* SetPackageNames has named a selected file of package p without the option after
\* the option of the other selected file, which has the same import path.
C21_Witness ==
    /\ outputImportPath # NoStr
    /\ Len(genFiles) = 2
    /\ \E i \in Range(genFiles) :
          /\ ~goPackageOption(req.protoFile[i]).ok
          /\ req.protoFile[i].package = pkgP
          /\ OptionSharers(i) # { }
          /\ allFiles[i].packageName = gpQ

\* C28: when the run has ended with the failure status, the manifest file holds
\* what it held before the run.
C28_AbortLeavesManifestUnchanged ==
    (pc = "exited" /\ exitCode = 1) => manifest = req.manifest

\* The entries of the import list of file f that name an object of file df, and the
\* objects of df: its messages that are not map entries and its enums, at any depth
\* or at the top level only, and its extensions.
EntriesFor(f, df) == SelectSeq(allFiles[f].imp, LAMBDA o : o.file = df)
ObjectsOf(df, topOnly) ==
    { [ file |-> df, kind |-> "msg", idx |-> d ] :
        d \in { d \in DOMAIN allFiles[df].desc :
                  /\ ~allFiles[df].desc[d].mapEntry
                  /\ topOnly => allFiles[df].desc[d].parent = 0 } }
    \cup { [ file |-> df, kind |-> "enum", idx |-> e ] :
             e \in { e \in DOMAIN allFiles[df].enum : topOnly => allFiles[df].enum[e].parent = 0 } }
    \cup { [ file |-> df, kind |-> "ext", idx |-> x ] : x \in DOMAIN allFiles[df].ext }
PublicDependencies(f) ==
    { allFilesByName[req.protoFile[f].dependency[req.protoFile[f].publicDependency[k] + 1]] :
        k \in DOMAIN req.protoFile[f].publicDependency }
ExactlyOnce(entries, objects) ==
    /\ Range(entries) = objects
    /\ Len(entries) = Cardinality(objects)

\* C23 as stated: the import list of a file holds, for each public dependency,
\* exactly one entry per top-level message that is not a map entry, per top-level
\* enum and per top-level extension of the dependency, and no entry for a nested
\* message or enum.
C23_TopLevelImportedOnce ==
    \A f \in DOMAIN allFiles : \A df \in PublicDependencies(f) :
        ExactlyOnce(EntriesFor(f, df), ObjectsOf(df, TRUE))

\* C23, amended: the import list of a file holds, for each public dependency,
\* exactly one entry per message of the dependency that is not a map entry and per
\* enum of the dependency, nested ones included, and per top-level extension; it
\* holds no entry for a map entry or for a file that is not a public dependency.
C23_EveryDeclarationImportedOnce ==
    \A f \in DOMAIN allFiles :
        /\ \A df \in PublicDependencies(f) :
              ExactlyOnce(EntriesFor(f, df), ObjectsOf(df, FALSE))
        /\ \A i \in DOMAIN allFiles[f].imp : allFiles[f].imp[i].file \in PublicDependencies(f)

\* WrapTypes has given a/x.proto, which depends publicly on a/y.proto declaring
\* A { B { enum B } }, entries for A, for A.B and for the enum.
C23_Witness ==
    /\ pc = "SetPackageNames"
    /\ Len(allFiles) = 3
    /\ 2 \in PublicDependencies(1)
    /\ Len(allFiles[2].desc) = 2
    /\ Len(EntriesFor(1, 2)) = 3
    /\ \E i \in DOMAIN allFiles[1].imp :
          /\ allFiles[1].imp[i].kind = "enum"
          /\ allFiles[2].enum[allFiles[1].imp[i].idx].parent = 2

\* C30: within one pass, whatever GoPackageName / AddImport calls have been made,
\* different import paths hold different package names, no name is a predeclared
\* identifier of Go, a call returns the name recorded for its path, a call for a path
\* that already has a name returns that name, and a step either empties the tables
\* (a new pass) or keeps every name already given.
NamesDistinct ==
    \A p1 \in DOMAIN packageNames : \A p2 \in DOMAIN packageNames :
        p1 # p2 => packageNames[p1] # packageNames[p2]
NamesNotPredeclared ==
    \A p1 \in DOMAIN packageNames : packageNames[p1] \notin isGoPredeclaredIdentifier
TablesEmpty ==
    /\ packageNames = EmptyMap
    /\ usedPackageNames = { }
    /\ usedPackages = { }
    /\ addedImports = { }
C30_NamesUniqueAndStable ==
    /\ [](/\ NamesDistinct
          /\ NamesNotPredeclared
          /\ usedPackageNames = { packageNames[p1] : p1 \in DOMAIN packageNames }
          /\ lastCall # NoCall => /\ lastCall.path \in DOMAIN packageNames
                                  /\ lastCall.name = packageNames[lastCall.path])
    /\ [][/\ (lastCall' # NoCall /\ lastCall'.path \in DOMAIN packageNames)
               => lastCall'.name = packageNames[lastCall'.path]
           /\ \/ TablesEmpty' /\ lastCall' = NoCall
              \/ \A p1 \in DOMAIN packageNames :
                     p1 \in DOMAIN packageNames' /\ packageNames'[p1] = packageNames[p1]]_vars
\* Every path has a name, the colliding and the predeclared ones were renamed, and the
\* last call asked again for a path named earlier.
C30_Witness ==
    /\ DOMAIN packageNames = ImportPaths
    /\ packageNames[NameFiles[2]] = << "x" >>
    /\ packageNames[NameFiles[1]] = << "x", "1" >>
    /\ packageNames[NameFiles[3]] = << "x", "1", "1" >>
    /\ packageNames[NameFiles[4]] = sString \o << "1" >>
    /\ packageNames[NameFiles[5]] = sString \o << "1", "1" >>
    /\ lastCall = [ path |-> NameFiles[2], name |-> << "x" >> ]
    /\ NameFiles[1] \in addedImports

\* The model files of the response, and the fields of a struct with the declared
\* field each one was made from.
ModelFiles == { i \in DOMAIN Response : Response[i].typ = "model" }
StructsOf(i) == Response[i].content.structs
DeclaredField(i, s, k) == allFiles[Response[i].file].desc[StructsOf(i)[s].desc].Field[k]
StartsWith(s, prefix) == Len(s) >= Len(prefix) /\ SubSeq(s, 1, Len(prefix)) = prefix
EndsWith(s, suffix) ==
    Len(s) >= Len(suffix) /\ SubSeq(s, Len(s) - Len(suffix) + 1, Len(s)) = suffix
\* The map entry a declared field refers to, as an object; NoEntry when it refers to
\* none.
NoEntry == [ file |-> 0, kind |-> "none", idx |-> 0 ]
EntryOf(field) ==
    IF field.type = "message" /\ field.typeName \in DOMAIN typeNameToObject
       /\ typeNameToObject[field.typeName].kind = "msg"
       /\ allFiles[typeNameToObject[field.typeName].file]
              .desc[typeNameToObject[field.typeName].idx].mapEntry
    THEN typeNameToObject[field.typeName]
    ELSE NoEntry
\* The last part of the Go name of a declared type: its CamelCased type name.
GoNameOfNamed(name) == CamelCaseSlice(objTypeName(allFiles, typeNameToObject[name]))

\* C22: no struct of a model file is made from a map entry message, and a field
\* whose message is a map entry has the type map[K]V, K the Go type of the entry's
\* first field and V that of its second (a reference for a message value, the plain
\* type otherwise), never a slice of the entry message.
C22_MapEntriesBecomeMaps ==
    \A i \in ModelFiles :
        /\ \A s \in DOMAIN StructsOf(i) :
              ~allFiles[Response[i].file].desc[StructsOf(i)[s].desc].mapEntry
        /\ \A d \in DOMAIN allFiles[Response[i].file].desc :
              allFiles[Response[i].file].desc[d].mapEntry
              => \A s \in DOMAIN StructsOf(i) : StructsOf(i)[s].desc # d
        /\ \A s \in DOMAIN StructsOf(i) : \A k \in DOMAIN StructsOf(i)[s].fields :
              LET o == EntryOf(DeclaredField(i, s, k))
                  entry == allFiles[o.file].desc[o.idx]
                  goType == StructsOf(i)[s].fields[k].goType
                  value == SubSeq(goType, 12, Len(goType))
              IN  o # NoEntry =>
                    /\ entry.Field[1].type = "string"
                    /\ StartsWith(goType, << "m", "a", "p", "[", "s", "t", "r", "i", "n", "g", "]" >>)
                    /\ IF entry.Field[2].type = "string"
                       THEN value = << "s", "t", "r", "i", "n", "g" >>
                       ELSE IF entry.Field[2].type = "message"
                       THEN /\ StartsWith(value, << "*" >>)
                            /\ ~("[" \in Range(value))
                            /\ EndsWith(value, GoNameOfNamed(entry.Field[2].typeName))
                       ELSE /\ ~StartsWith(value, << "*" >>)
                            /\ ~("[" \in Range(value))
                            /\ EndsWith(value, GoNameOfNamed(entry.Field[2].typeName))
\* A model file of a proto2 file whose repeated field m refers to a map entry with a
\* message value.
C22_Witness ==
    \E i \in ModelFiles :
        /\ req.protoFile[Response[i].file].syntax = "proto2"
        /\ \E s \in DOMAIN StructsOf(i) : \E k \in DOMAIN StructsOf(i)[s].fields :
              /\ DeclaredField(i, s, k).repeated
              /\ EntryOf(DeclaredField(i, s, k)) # NoEntry
              /\ allFiles[EntryOf(DeclaredField(i, s, k)).file]
                     .desc[EntryOf(DeclaredField(i, s, k)).idx].Field[2].type = "message"
              /\ StartsWith(StructsOf(i)[s].fields[k].goType, << "m", "a", "p", "[" >>)

\* The files that declare a type a field of a struct of model file i refers to: the
\* type of the field and, for a map field, the type of the entry's value.
TypeNamesOfField(i, s, k) ==
    { DeclaredField(i, s, k).typeName } \cup
    ( IF EntryOf(DeclaredField(i, s, k)) = NoEntry THEN { }
      ELSE { allFiles[EntryOf(DeclaredField(i, s, k)).file]
                 .desc[EntryOf(DeclaredField(i, s, k)).idx].Field[2].typeName } )
ReferencedFiles(i) ==
    { allFiles[typeNameToObject[n].file].name :
        n \in { n0 \in UNION { UNION { TypeNamesOfField(i, s, k) :
                                         k \in DOMAIN StructsOf(i)[s].fields } :
                               s \in DOMAIN StructsOf(i) } :
                  n0 \in DOMAIN typeNameToObject } }
\* The files model file i re-exports: its public dependencies.
ReexportedFiles(i) ==
    { req.protoFile[Response[i].file].dependency[req.protoFile[Response[i].file].publicDependency[k] + 1] :
        k \in DOMAIN req.protoFile[Response[i].file].publicDependency }

\* C24: every import of a model file is a dependency of the file that is not weak
\* and that declares a type some field of the file's messages refers to (or that the
\* file re-exports); what other files refer to adds nothing.
C24_ImportsOnlyWhatIsReferenced ==
    \A i \in ModelFiles : \A k \in DOMAIN Response[i].content.imports :
        LET import == Response[i].content.imports[k]
            file == req.protoFile[Response[i].file]
        IN  /\ \E j \in DOMAIN file.dependency :
                  /\ file.dependency[j] = import.importPath
                  /\ (j - 1) \notin Range(file.weakDependency)
            /\ import.importPath \in ReferencedFiles(i) \cup ReexportedFiles(i)
            /\ import.line = ImportPrefix \o import.packageName
\* The model file of a/x.proto imports a/y.proto, which a field refers to, and not
\* b/z.proto, a dependency no field refers to, while the model pass of a/y.proto did
\* refer to a type of b/z.proto.
C24_Witness ==
    \E i \in ModelFiles :
        /\ allFiles[Response[i].file].name = fileX
        /\ req.protoFile[Response[i].file].dependency = << fileY, fileZ >>
        /\ req.protoFile[Response[i].file].weakDependency = << >>
        /\ { Response[i].content.imports[k].importPath :
               k \in DOMAIN Response[i].content.imports } = { fileY }
        /\ \E d \in DOMAIN allFiles[2].desc :
              allFiles[2].desc[d].mapEntry /\ allFiles[2].desc[d].Field[2].typeName = TypeIn(pkgR, sZ)

\* C25: the form name of a field is its JSON name when it has one, else its declared
\* name; the json name is the same name followed by ",omitempty", and the bare name
\* when the @tag line of the field's comment has an omitempty token whose value is
\* not "true" in any case of letters.
WireName(field) == IF field.jsonName # NoStr THEN field.jsonName ELSE field.name
DoNotOmit(field) ==
    /\ field.tag # NoStr
    /\ \E t \in DOMAIN Split(field.tag, " ") :
          LET token == Split(field.tag, " ")[t]
              parts == Split(token, ":")
          IN  IF ":" \in Range(token)
              THEN parts[1] = kOmitempty /\ ToLower(parts[2]) # << "t", "r", "u", "e" >>
              ELSE token = kOmitempty
C25_TagCarriesWireName ==
    \A i \in ModelFiles : \A s \in DOMAIN StructsOf(i) : \A k \in DOMAIN StructsOf(i)[s].fields :
        LET field == DeclaredField(i, s, k)
            decl == StructsOf(i)[s].fields[k]
        IN  /\ decl.form = WireName(field)
            /\ decl.json = IF DoNotOmit(field) THEN WireName(field)
                           ELSE WireName(field) \o << ",", "o", "m", "i", "t", "e", "m", "p", "t", "y" >>
\* A field with a JSON name whose comment says omitempty:false.
C25_Witness ==
    \E i \in ModelFiles : \E s \in DOMAIN StructsOf(i) : \E k \in DOMAIN StructsOf(i)[s].fields :
        /\ DeclaredField(i, s, k).jsonName = << "f", "G" >>
        /\ DeclaredField(i, s, k).tag = kOmitempty \o << ":", "f", "a", "l", "s", "e" >>
        /\ StructsOf(i)[s].fields[k].json = << "f", "G" >>
        /\ StructsOf(i)[s].fields[k].form = << "f", "G" >>

\* C26: in every struct the field names and the getter names are all different and
\* none is a method name; each field is named CamelCase(declared name) followed by
\* some number of '_', its getter "Get" and the same name, and that number is at most
\* the number of names taken before.
Underscores(n) == [ j \in 1..n |-> "_" ]
C26_FieldNamesDistinct ==
    \A i \in ModelFiles : \A s \in DOMAIN StructsOf(i) :
        LET fields == StructsOf(i)[s].fields
            names == { fields[k].goName : k \in DOMAIN fields }
                     \cup { fields[k].getterName : k \in DOMAIN fields }
        IN  /\ Cardinality(names) = 2 * Len(fields)
            /\ names \cap methodNames = { }
            /\ \A k \in DOMAIN fields :
                  \E n \in 0..(Cardinality(methodNames) + 2 * (k - 1)) :
                      /\ fields[k].goName = CamelCase(DeclaredField(i, s, k).name) \o Underscores(n)
                      /\ fields[k].getterName = << "G", "e", "t" >> \o fields[k].goName
\* A struct with a field renamed because of another field's getter and one renamed
\* because of a method name.
C26_Witness ==
    \E i \in ModelFiles : \E s \in DOMAIN StructsOf(i) :
        LET fields == StructsOf(i)[s].fields
        IN  /\ Len(fields) = 3
            /\ fields[1].goName = << "G", "e", "t", "A" >>
            /\ fields[2].goName = << "A", "_" >>
            /\ fields[3].goName = << "R", "e", "s", "e", "t", "_" >>

\* C27: in the model file and the API file of every selected file, a field or a
\* method input whose type is declared in that file is written with the type's Go
\* name alone (after "*" or "[]"), and the pass of the file records no import and no
\* use of the file itself.
ApiFiles == { i \in DOMAIN Response : Response[i].typ = "api" }
DeclaredInFile(name, f) == name \in DOMAIN typeNameToObject /\ typeNameToObject[name].file = f
C27_OwnTypesUnqualified ==
    /\ \A i \in ModelFiles : \A s \in DOMAIN StructsOf(i) : \A k \in DOMAIN StructsOf(i)[s].fields :
          ( /\ DeclaredInFile(DeclaredField(i, s, k).typeName, Response[i].file)
            /\ EntryOf(DeclaredField(i, s, k)) = NoEntry )
          => StructsOf(i)[s].fields[k].goType
                \in { prefix \o GoNameOfNamed(DeclaredField(i, s, k).typeName) :
                        prefix \in { << >>, << "*" >>, << "[", "]" >>, << "[", "]", "*" >> } }
    /\ \A i \in ApiFiles :
          ( \A s \in DOMAIN req.protoFile[Response[i].file].service :
              \A m \in DOMAIN req.protoFile[Response[i].file].service[s].method :
                  DeclaredInFile(req.protoFile[Response[i].file].service[s].method[m].inputType,
                                 Response[i].file) )
          => \A l \in DOMAIN Response[i].content.lines :
                Response[i].content.lines[l].line = "body"
                => \/ Response[i].content.lines[l].inType = sRouterEmpty
                   \/ ~("." \in Range(Response[i].content.lines[l].inType))
    /\ pc \in { "BeginApiFile", "GenerateService", "FinishApiFile" }
       => allFiles[fileIdx].name \notin addedImports \cup usedPackages

\* C29: the API file of a file with services imports gin's binding package exactly
\* when the body of some route closure of the file names the package (a bind call
\* with a binding type).
C29_BindingImportedIffReferenced ==
    \A i \in ApiFiles :
        Len(req.protoFile[Response[i].file].service) > 0
        => ( sGinBinding \in Range(Response[i].content.imports)
             <=> \E l \in DOMAIN Response[i].content.lines :
                    /\ Response[i].content.lines[l].line = "body"
                    /\ Response[i].content.lines[l].bind.type # "" )

=============================================================================
